---- MODULE Spec2Model ----
(***************************************************************************)
(* gimp-mcp-pro: the framed RPC layer between the MCP server's GimpBridge  *)
(* (src/src/gimp_mcp_pro/bridge.py) and the GIMP plug-in's socket server   *)
(* (src/gimp_plugin/gimp_mcp_plugin.py).                                   *)
(*                                                                         *)
(* A byte is an integer 0..255.  A text is a sequence of one-character     *)
(* strings.  A JSON value is a record [t, n, s, a]: t is the kind, n the   *)
(* number of an "int", s the characters of a "str", a the items of an      *)
(* "arr" or the <<key, value>> members of an "obj" in insertion order.     *)
(***************************************************************************)
EXTENDS Integers, Sequences, FiniteSets, TLC

\* ------------------------------------------------------------------------
\* Protocol constants
\* ------------------------------------------------------------------------

HEADER_SIZE == 4

MAX_MESSAGE_SIZE == 104857600

RECV_CAP == 65536

\* Seconds.
DEFAULT_TIMEOUT == 30

LONG_TIMEOUT == 120

\* ------------------------------------------------------------------------
\* Characters and bytes
\* ------------------------------------------------------------------------

\* The printable ASCII characters, code points 32..126, in order ("<bt>" is
\* the backquote, which a TLA+ string cannot hold).
Printable ==
    << " ", "!", "\"", "#", "$", "%", "&", "'", "(", ")", "*", "+", ",", "-", ".", "/",
       "0", "1", "2", "3", "4", "5", "6", "7", "8", "9", ":", ";", "<", "=", ">", "?",
       "@", "A", "B", "C", "D", "E", "F", "G", "H", "I", "J", "K", "L", "M", "N", "O",
       "P", "Q", "R", "S", "T", "U", "V", "W", "X", "Y", "Z", "[", "\\", "]", "^", "_",
       "<bt>", "a", "b", "c", "d", "e", "f", "g", "h", "i", "j", "k", "l", "m", "n", "o",
       "p", "q", "r", "s", "t", "u", "v", "w", "x", "y", "z", "{", "|", "}", "~" >>

\* Code point of a printable character.
Ord(c) == 31 + (CHOOSE i \in 1..Len(Printable) : Printable[i] = c)

\* Character of an ASCII code point; the control characters other than the
\* three JSON whitespace controls are one token, which no JSON text admits.
Chr(b) ==
    IF b >= 32 /\ b <= 126 THEN Printable[b - 31]
    ELSE IF b = 9 THEN "\t"
    ELSE IF b = 10 THEN "\n"
    ELSE IF b = 13 THEN "\r"
    ELSE "<ctl>"

\* The letter a run of image data repeats, and the length of the run that
\* the text character "<run>" stands for.
RunByte == Ord("A")

BigRun == 104857600

\* str.encode("utf-8") of a text json.dumps produced: json.dumps escapes
\* everything outside ASCII (ensure_ascii), so each character is one byte.
\* The character "<run>" becomes one stream element, a run of BigRun bytes.
Utf8Encode(text) ==
    CHOOSE b \in { [i \in 1..Len(t) |-> IF t[i] = "<run>" THEN 0 - BigRun ELSE Ord(t[i])] :
                      t \in {text} } : TRUE

\* bytes.decode("utf-8"): [ok, text].  One-byte and two-byte sequences are
\* decoded; a lead byte C2..DF takes one continuation byte 80..BF and yields
\* one non-ASCII character.  Every other byte above 7F is rejected (the
\* bytes of the model are 0..127, C3, A9 and FF, for which this is exact).
RECURSIVE Utf8Scan(_, _, _)
Utf8Scan(bytes, i, acc) ==
    IF i > Len(bytes) THEN [ok |-> TRUE, text |-> acc]
    ELSE IF bytes[i] < 128 THEN Utf8Scan(bytes, i + 1, Append(acc, Chr(bytes[i])))
    ELSE IF /\ bytes[i] >= 194 /\ bytes[i] <= 223
            /\ i + 1 <= Len(bytes)
            /\ bytes[i + 1] >= 128 /\ bytes[i + 1] <= 191
         THEN Utf8Scan(bytes, i + 2, Append(acc, "<u>"))
    ELSE [ok |-> FALSE, text |-> <<>>]

\* A buffer of ASCII bytes decodes byte by byte; the scan is for the rest.
Utf8Decode(bytes) ==
    IF \A i \in 1..Len(bytes) : bytes[i] >= 0 /\ bytes[i] < 128
    THEN [ok |-> TRUE, text |-> [i \in 1..Len(bytes) |-> Chr(bytes[i])]]
    ELSE Utf8Scan(bytes, 1, <<>>)

\* ------------------------------------------------------------------------
\* JSON values
\* ------------------------------------------------------------------------

JNull == [t |-> "null", n |-> 0, s |-> <<>>, a |-> <<>>]

JBool(b) == [t |-> IF b THEN "true" ELSE "false", n |-> 0, s |-> <<>>, a |-> <<>>]

JInt(k) == [t |-> "int", n |-> k, s |-> <<>>, a |-> <<>>]

JStr(chars) == [t |-> "str", n |-> 0, s |-> chars, a |-> <<>>]

JArr(items) == [t |-> "arr", n |-> 0, s |-> <<>>, a |-> items]

JObj(members) == [t |-> "obj", n |-> 0, s |-> <<>>, a |-> members]

\* isinstance(v, dict)
IsDict(v) == v.t = "obj"

HasKey(v, key) == \E i \in 1..Len(v.a) : v.a[i][1] = key

\* dict.get(key, default)
DictGet(v, key, default) ==
    IF HasKey(v, key)
    THEN v.a[CHOOSE i \in 1..Len(v.a) : v.a[i][1] = key][2]
    ELSE default

\* d[key] = value: a key already present keeps its place and takes the new
\* value, a new key goes last.
DictPut(members, key, value) ==
    IF \E i \in 1..Len(members) : members[i][1] = key
    THEN [i \in 1..Len(members) |->
            IF members[i][1] = key THEN <<key, value>> ELSE members[i]]
    ELSE Append(members, <<key, value>>)

\* ------------------------------------------------------------------------
\* json.dumps
\* ------------------------------------------------------------------------

RECURSIVE DigitsOf(_)
DigitsOf(k) ==
    IF k < 10 THEN << Chr(48 + k) >>
    ELSE Append(DigitsOf(k \div 10), Chr(48 + (k % 10)))

DumpInt(k) == IF k < 0 THEN <<"-">> \o DigitsOf(0 - k) ELSE DigitsOf(k)

\* The quote and the backslash are escaped; the strings of the model hold
\* printable ASCII only, which json.dumps leaves as it is.
RECURSIVE EscapeChars(_)
EscapeChars(chars) ==
    IF chars = <<>> THEN <<>>
    ELSE (IF Head(chars) \in {"\"", "\\"} THEN <<"\\", Head(chars)>> ELSE <<Head(chars)>>)
         \o EscapeChars(Tail(chars))

DumpStr(chars) ==
    IF \A i \in 1..Len(chars) : chars[i] \notin {"\"", "\\"}
    THEN <<"\"">> \o chars \o <<"\"">>
    ELSE <<"\"">> \o EscapeChars(chars) \o <<"\"">>

\* json.dumps with the default separators ", " and ": ".
RECURSIVE JsonDumps(_)
RECURSIVE DumpItems(_)
RECURSIVE DumpMembers(_)
DumpItems(items) ==
    IF items = <<>> THEN <<>>
    ELSE JsonDumps(Head(items))
         \o (IF Len(items) > 1 THEN <<",", " ">> ELSE <<>>)
         \o DumpItems(Tail(items))

DumpMembers(members) ==
    IF members = <<>> THEN <<>>
    ELSE DumpStr(Head(members)[1]) \o <<":", " ">> \o JsonDumps(Head(members)[2])
         \o (IF Len(members) > 1 THEN <<",", " ">> ELSE <<>>)
         \o DumpMembers(Tail(members))

JsonDumps(v) ==
    CASE v.t = "null"  -> <<"n", "u", "l", "l">>
      [] v.t = "true"  -> <<"t", "r", "u", "e">>
      [] v.t = "false" -> <<"f", "a", "l", "s", "e">>
      [] v.t = "int"   -> DumpInt(v.n)
      [] v.t = "str"   -> DumpStr(v.s)
      [] v.t = "arr"   -> <<"[">> \o DumpItems(v.a) \o <<"]">>
      [] v.t = "obj"   -> <<"{">> \o DumpMembers(v.a) \o <<"}">>

\* ------------------------------------------------------------------------
\* json.loads
\* ------------------------------------------------------------------------

\* A parse result: ok, the value, and the position after it.
ParseFail == [ok |-> FALSE, v |-> JNull, i |-> 0]

ParseOk(v, i) == [ok |-> TRUE, v |-> v, i |-> i]

IsWs(c) == c \in {" ", "\t", "\n", "\r"}

IsDigit(c) == c \in {"0", "1", "2", "3", "4", "5", "6", "7", "8", "9"}

RECURSIVE SkipWs(_, _)
SkipWs(s, i) == IF i <= Len(s) /\ IsWs(s[i]) THEN SkipWs(s, i + 1) ELSE i

StartsWith(s, i, word) ==
    /\ i + Len(word) - 1 <= Len(s)
    /\ \A k \in 1..Len(word) : s[i + k - 1] = word[k]

\* The characters of a string, from position i (after its opening quote,
\* or after an escape): the plain characters up to the next quote, backslash
\* or control character are taken at once.
RECURSIVE ScanString(_, _, _)
ScanString(s, i, acc) ==
    LET stops == {j \in i..Len(s) : s[j] \in {"\"", "\\", "\t", "\n", "\r", "<ctl>"}}
    IN  IF stops = {} THEN ParseFail
        ELSE LET j == CHOOSE x \in stops : \A y \in stops : x <= y
                 plain == acc \o SubSeq(s, i, j - 1)
             IN  IF s[j] = "\"" THEN ParseOk(JStr(plain), j + 1)
                 ELSE IF s[j] # "\\" \/ j + 1 > Len(s) THEN ParseFail
                 ELSE IF s[j + 1] \in {"\"", "\\", "/"}
                      THEN ScanString(s, j + 2, Append(plain, s[j + 1]))
                 ELSE IF s[j + 1] = "n" THEN ScanString(s, j + 2, Append(plain, "\n"))
                 ELSE IF s[j + 1] = "t" THEN ScanString(s, j + 2, Append(plain, "\t"))
                 ELSE IF s[j + 1] = "r" THEN ScanString(s, j + 2, Append(plain, "\r"))
                 ELSE ParseFail

RECURSIVE ScanDigits(_, _, _)
ScanDigits(s, i, acc) ==
    IF i <= Len(s) /\ IsDigit(s[i])
    THEN ScanDigits(s, i + 1, acc * 10 + (Ord(s[i]) - 48))
    ELSE [n |-> acc, i |-> i]

\* An integer: "-"? ("0" | [1-9][0-9]*).  A fraction or an exponent after
\* it makes a float, which the model has no value for.
ParseInt(s, i) ==
    LET neg == s[i] = "-"
        j == IF neg THEN i + 1 ELSE i
    IN  IF j > Len(s) \/ ~IsDigit(s[j]) THEN ParseFail
        ELSE LET d == IF s[j] = "0" THEN [n |-> 0, i |-> j + 1] ELSE ScanDigits(s, j, 0)
             IN  IF d.i <= Len(s) /\ s[d.i] \in {".", "e", "E"} THEN ParseFail
                 ELSE ParseOk(JInt(IF neg THEN 0 - d.n ELSE d.n), d.i)

RECURSIVE ParseValue(_, _)
RECURSIVE ParseItems(_, _, _)
RECURSIVE ParseMembers(_, _, _)

\* The items of an array after "[" or after a ",": i is at the next item.
ParseItems(s, i, acc) ==
    LET r == ParseValue(s, SkipWs(s, i))
    IN  IF ~r.ok THEN ParseFail
        ELSE LET j == SkipWs(s, r.i)
             IN  IF j > Len(s) THEN ParseFail
                 ELSE IF s[j] = "]" THEN ParseOk(JArr(Append(acc, r.v)), j + 1)
                 ELSE IF s[j] = "," THEN ParseItems(s, j + 1, Append(acc, r.v))
                 ELSE ParseFail

\* The members of an object after "{" or after a ",": i is at the next key.
ParseMembers(s, i, acc) ==
    LET k == SkipWs(s, i)
    IN  IF k > Len(s) \/ s[k] # "\"" THEN ParseFail
        ELSE LET key == ScanString(s, k + 1, <<>>)
             IN  IF ~key.ok THEN ParseFail
                 ELSE LET c == SkipWs(s, key.i)
                      IN  IF c > Len(s) \/ s[c] # ":" THEN ParseFail
                          ELSE LET r == ParseValue(s, SkipWs(s, c + 1))
                               IN  IF ~r.ok THEN ParseFail
                                   ELSE LET j == SkipWs(s, r.i)
                                            more == DictPut(acc, key.v.s, r.v)
                                        IN  IF j > Len(s) THEN ParseFail
                                            ELSE IF s[j] = "}" THEN ParseOk(JObj(more), j + 1)
                                            ELSE IF s[j] = "," THEN ParseMembers(s, j + 1, more)
                                            ELSE ParseFail

\* One JSON value starting at position i (no leading whitespace).
ParseValue(s, i) ==
    IF i > Len(s) THEN ParseFail
    ELSE IF s[i] = "{" THEN
        LET j == SkipWs(s, i + 1)
        IN  IF j <= Len(s) /\ s[j] = "}" THEN ParseOk(JObj(<<>>), j + 1)
            ELSE ParseMembers(s, j, <<>>)
    ELSE IF s[i] = "[" THEN
        LET j == SkipWs(s, i + 1)
        IN  IF j <= Len(s) /\ s[j] = "]" THEN ParseOk(JArr(<<>>), j + 1)
            ELSE ParseItems(s, j, <<>>)
    ELSE IF s[i] = "\"" THEN ScanString(s, i + 1, <<>>)
    ELSE IF StartsWith(s, i, <<"n", "u", "l", "l">>) THEN ParseOk(JNull, i + 4)
    ELSE IF StartsWith(s, i, <<"t", "r", "u", "e">>) THEN ParseOk(JBool(TRUE), i + 4)
    ELSE IF StartsWith(s, i, <<"f", "a", "l", "s", "e">>) THEN ParseOk(JBool(FALSE), i + 5)
    ELSE IF s[i] = "-" \/ IsDigit(s[i]) THEN ParseInt(s, i)
    ELSE ParseFail

\* json.loads of a text: [ok, v]; ok is FALSE where json.loads raises
\* JSONDecodeError (no value, or extra data after it).
JsonLoads(text) ==
    LET r == ParseValue(text, SkipWs(text, 1))
    IN  IF r.ok /\ SkipWs(text, r.i) > Len(text)
        THEN [ok |-> TRUE, v |-> r.v]
        ELSE [ok |-> FALSE, v |-> JNull]

\* json.loads(data.decode("utf-8")): [ok, v]; ok is FALSE where either step
\* raises (UnicodeDecodeError and JSONDecodeError are both ValueError).
DecodeBody(bytes) ==
    LET d == Utf8Decode(bytes)
    IN  IF d.ok THEN JsonLoads(d.text) ELSE [ok |-> FALSE, v |-> JNull]

\* ------------------------------------------------------------------------
\* struct.pack(">I", n) and struct.unpack(">I", header)[0]
\* ------------------------------------------------------------------------

\* struct.pack("<I", n): the other byte order.
PackLittleEndian(n) ==
    << n % 256, (n \div 256) % 256, (n \div 65536) % 256, (n \div 16777216) % 256 >>

Pack(n) ==
    << (n \div 16777216) % 256, (n \div 65536) % 256, (n \div 256) % 256, n % 256 >>

Unpack(h) == ((h[1] * 256 + h[2]) * 256 + h[3]) * 256 + h[4]

\* A test that turns away the maximum itself.
TooLargeInclusive(length) == length >= MAX_MESSAGE_SIZE

\* if length > MAX_MESSAGE_SIZE, in both decoders.
TooLarge(length) == length > MAX_MESSAGE_SIZE

\* ------------------------------------------------------------------------
\* Byte streams
\* ------------------------------------------------------------------------

\* A stream is the sequence of bytes written on one direction of a
\* connection and not yet read.  An element n >= 0 is the byte n; an element
\* -n is a run of n bytes, each the letter A (base64 image data), kept as
\* one element so that a body above MAX_MESSAGE_SIZE can be written.
\* len(data): the number of bytes of a stream.
RECURSIVE RunBytes(_, _)
RunBytes(s, at) ==
    IF at = {} THEN 0
    ELSE LET i == CHOOSE x \in at : TRUE
         IN  (0 - s[i]) - 1 + RunBytes(s, at \ {i})

ByteLen(s) == Len(s) + RunBytes(s, {i \in 1..Len(s) : s[i] < 0})

\* The first k bytes of stream s (fewer when s is shorter) and what is left;
\* g is the sequence of owners of the elements of s (the id of the request a
\* byte answers), split alongside.
RECURSIVE SplitRuns(_, _, _, _, _)
SplitRuns(s, g, k, got, owners) ==
    IF k = 0 \/ s = <<>>
    THEN [got |-> got, owners |-> owners, rest |-> s, restg |-> g]
    ELSE IF Head(s) >= 0
    THEN SplitRuns(Tail(s), Tail(g), k - 1, Append(got, Head(s)), owners \cup {Head(g)})
    ELSE SplitRuns(IF Head(s) = -1 THEN Tail(s) ELSE <<Head(s) + 1>> \o Tail(s),
                   IF Head(s) = -1 THEN Tail(g) ELSE g,
                   k - 1, Append(got, RunByte), owners \cup {Head(g)})

\* The bytes before the first run are split off at once.
SplitAt(s, g, k, got, owners) ==
    LET m == IF k < Len(s) THEN k ELSE Len(s)
    IN  IF \A i \in 1..m : s[i] >= 0
        THEN [got |-> got \o SubSeq(s, 1, m),
              owners |-> owners \cup {g[i] : i \in 1..m},
              rest |-> SubSeq(s, m + 1, Len(s)),
              restg |-> SubSeq(g, m + 1, Len(g))]
        ELSE SplitRuns(s, g, k, got, owners)

Owned(s, id) == [i \in 1..Len(s) |-> id]

\* ------------------------------------------------------------------------
\* Framing: GimpBridge._send and MCPProPlugin._send_message
\* ------------------------------------------------------------------------

\* header + data, as handed to sendall.
Frame(payloadBytes) ==
    CHOOSE f \in { Pack(n) \o p : p \in {payloadBytes}, n \in {ByteLen(payloadBytes)} } : TRUE

\* GimpBridge._send in length-prefixed mode: the bytes written for payload.
ClientFrame(payload) == Frame(Utf8Encode(JsonDumps(payload)))

\* MCPProPlugin._send_message in length-prefixed mode.
ServerFrame(data) == Frame(Utf8Encode(JsonDumps(data)))

\* ------------------------------------------------------------------------
\* Strings of the protocol
\* ------------------------------------------------------------------------

K_id == <<"i", "d">>

K_type == <<"t", "y", "p", "e">>

K_params == <<"p", "a", "r", "a", "m", "s">>

K_status == <<"s", "t", "a", "t", "u", "s">>

K_error == <<"e", "r", "r", "o", "r">>

K_traceback == <<"t", "r", "a", "c", "e", "b", "a", "c", "k">>

K_results == <<"r", "e", "s", "u", "l", "t", "s">>

K_args == <<"a", "r", "g", "s">>

K_image_data == <<"i", "m", "a", "g", "e", "_", "d", "a", "t", "a">>

V_success == <<"s", "u", "c", "c", "e", "s", "s">>

V_error == <<"e", "r", "r", "o", "r">>

V_eval == <<"p", "y", "G", "O", "b", "j", "e", "c", "t", "-", "e", "v", "a", "l">>

V_console == <<"p", "y", "G", "O", "b", "j", "e", "c", "t", "-", "c", "o", "n", "s", "o", "l", "e">>

T_exec == <<"e", "x", "e", "c">>

T_get_image_bitmap == <<"g", "e", "t", "_", "i", "m", "a", "g", "e", "_", "b", "i", "t", "m", "a", "p">>

T_get_image_metadata == <<"g", "e", "t", "_", "i", "m", "a", "g", "e", "_", "m", "e", "t", "a", "d", "a", "t", "a">>

T_get_gimp_info == <<"g", "e", "t", "_", "g", "i", "m", "p", "_", "i", "n", "f", "o">>

T_get_context_state == <<"g", "e", "t", "_", "c", "o", "n", "t", "e", "x", "t", "_", "s", "t", "a", "t", "e">>

M_unknown_gimp_error == <<"U", "n", "k", "n", "o", "w", "n", " ", "G", "I", "M", "P", " ", "e", "r", "r", "o", "r">>

M_unknown_command == <<"U", "n", "k", "n", "o", "w", "n", " ", "c", "o", "m", "m", "a", "n", "d", " ", "t", "y", "p", "e", ":", " ">>

M_exec_requires == <<"e", "x", "e", "c", " ", "r", "e", "q", "u", "i", "r", "e", "s", " ", "a", "r", "g", "s", ":", " ", "[", "m", "o", "d", "e", ",", " ", "c", "o", "d", "e", "_", "a", "r", "r", "a", "y", "]">>

M_no_images_gimp == <<"N", "o", " ", "i", "m", "a", "g", "e", "s", " ", "a", "r", "e", " ", "o", "p", "e", "n", " ", "i", "n", " ", "G", "I", "M", "P">>

M_no_images == <<"N", "o", " ", "i", "m", "a", "g", "e", "s", " ", "a", "r", "e", " ", "o", "p", "e", "n">>

M_too_large == <<"M", "e", "s", "s", "a", "g", "e", " ", "t", "o", "o", " ", "l", "a", "r", "g", "e", ":", " ">>

\* str(e) of an exception Python raises on its own (a NameError in eval, an
\* AttributeError on a request that is no dict, a JSONDecodeError), and
\* traceback.format_exc(): their wording is Python's, one token each here.
M_python_error == <<"P", "y", "E", "r", "r", "o", "r">>

M_traceback == <<"T", "r", "a", "c", "e", "b", "a", "c", "k">>

\* ------------------------------------------------------------------------
\* The plug-in's handlers and MCPProPlugin._dispatch
\* ------------------------------------------------------------------------

\* What GIMP holds when a handler asks: no image, an image whose PNG is a
\* few bytes, an image whose base64 PNG is longer than MAX_MESSAGE_SIZE.
GimpStates == {"none", "small", "huge"}

ErrorDict(msg) == JObj(<< <<K_status, JStr(V_error)>>, <<K_error, JStr(msg)>> >>)

\* {"status": "error", "error": str(e), "traceback": traceback.format_exc()}
ErrorWithTrace(msg) ==
    JObj(<< <<K_status, JStr(V_error)>>, <<K_error, JStr(msg)>>,
            <<K_traceback, JStr(M_traceback)>> >>)

SuccessDict(results) ==
    JObj(<< <<K_status, JStr(V_success)>>, <<K_results, results>> >>)

\* A handler's outcome: it returns resp, or it raises.
Returned(resp) == [raised |-> FALSE, resp |-> resp]

Raised == [raised |-> TRUE, resp |-> JNull]

\* eval(e, exec_context) succeeds on a decimal literal and raises on any
\* other expression of the model (an undefined name).
EvalOk(e) ==
    /\ e.t = "str"
    /\ e.s # <<>>
    /\ \A i \in 1..Len(e.s) : IsDigit(e.s[i])
    /\ (Len(e.s) > 1 => e.s[1] # "0")

\* The statement print(n,end='') and what exec of it writes to sys.stdout.
PrintCode(n) ==
    <<"p", "r", "i", "n", "t", "(">> \o DigitsOf(n)
        \o <<",", "e", "n", "d", "=", "'", "'", ")">>

IsPrint(e) ==
    /\ e.t = "str"
    /\ Len(e.s) > 14
    /\ SubSeq(e.s, 1, 6) = <<"p", "r", "i", "n", "t", "(">>
    /\ SubSeq(e.s, Len(e.s) - 7, Len(e.s)) = <<",", "e", "n", "d", "=", "'", "'", ")">>
    /\ EvalOk(JStr(SubSeq(e.s, 7, Len(e.s) - 8)))

Printed(e) == IF IsPrint(e) THEN SubSeq(e.s, 7, Len(e.s) - 8) ELSE <<>>

\* The code lines of the model that run: a literal, a print.
Runs(e) == EvalOk(e) \/ IsPrint(e)

\* str(eval(e, exec_context)): print returns None.
EvalStr(e) == IF IsPrint(e) THEN <<"N", "o", "n", "e">> ELSE e.s

\* MCPProPlugin._handle_exec; in console mode with one handler at a time
\* exec_and_capture returns what the line printed.
HandleExec(params) ==
    IF ~IsDict(params) THEN Raised
    ELSE LET args == DictGet(params, K_args, JArr(<<>>))
         IN  IF args.t # "arr" THEN Raised
             ELSE IF Len(args.a) < 2 THEN Returned(ErrorDict(M_exec_requires))
             ELSE LET mode == args.a[1]
                      code_lines == args.a[2]
                  IN  IF code_lines.t # "arr" THEN Raised
                      ELSE IF \E i \in 1..Len(code_lines.a) : ~Runs(code_lines.a[i])
                      THEN Raised
                      ELSE IF mode = JStr(V_eval)
                      THEN Returned(SuccessDict(JArr(
                               [i \in 1..Len(code_lines.a) |-> JStr(EvalStr(code_lines.a[i]))])))
                      ELSE Returned(SuccessDict(JArr(
                               [i \in 1..Len(code_lines.a) |-> JStr(Printed(code_lines.a[i]))])))

\* MCPProPlugin._handle_get_bitmap: the base64 text of the exported PNG.
HandleGetBitmap(params, gimp) ==
    IF gimp = "none" THEN Returned(ErrorDict(M_no_images_gimp))
    ELSE IF ~IsDict(params) THEN Raised
    ELSE Returned(SuccessDict(JObj(<<
             <<K_image_data, JStr(IF gimp = "huge" THEN <<"<run>">> ELSE <<"i", "V">>)>> >>)))

\* MCPProPlugin._handle_get_metadata
HandleGetMetadata(params, gimp) ==
    IF gimp = "none" THEN Returned(ErrorDict(M_no_images))
    ELSE Returned(SuccessDict(JObj(<<>>)))

\* MCPProPlugin._handle_get_gimp_info
HandleGetGimpInfo(params) == Returned(SuccessDict(JObj(<<>>)))

\* MCPProPlugin._handle_get_context_state
HandleGetContextState(params) == Returned(SuccessDict(JObj(<<>>)))

\* The keys of the handlers dict.
RegisteredTypes ==
    {T_exec, T_get_image_bitmap, T_get_image_metadata, T_get_gimp_info,
     T_get_context_state}

RunHandler(cmd_type, params, gimp) ==
    CASE cmd_type = T_exec -> HandleExec(params)
      [] cmd_type = T_get_image_bitmap -> HandleGetBitmap(params, gimp)
      [] cmd_type = T_get_image_metadata -> HandleGetMetadata(params, gimp)
      [] cmd_type = T_get_gimp_info -> HandleGetGimpInfo(params)
      [] cmd_type = T_get_context_state -> HandleGetContextState(params)

\* f"{cmd_type}" of a type that is no string, list or dict.
PyFormat(v) ==
    CASE v.t = "null"  -> <<"N", "o", "n", "e">>
      [] v.t = "true"  -> <<"T", "r", "u", "e">>
      [] v.t = "false" -> <<"F", "a", "l", "s", "e">>
      [] v.t = "int"   -> DumpInt(v.n)
      [] OTHER         -> v.s

\* An unknown type that makes _dispatch raise.
UnknownRaised(text) == Raised

\* return {"status": "error", "error": f"Unknown command type: {cmd_type}"}
UnknownReply(text) == Returned(ErrorDict(M_unknown_command \o text))

\* An error response without the traceback.
CaughtWithoutTrace(msg) == Returned(ErrorDict(msg))

\* except Exception as e in _dispatch: the handler raised, the response is
\* {"status": "error", "error": str(e), "traceback": traceback.format_exc()}.
Caught(msg) == Returned(ErrorWithTrace(msg))

\* MCPProPlugin._dispatch: it returns a response, or it raises (request.get
\* on a request that is no dict, handlers.get on an unhashable type).
Dispatch(request, gimp) ==
    IF ~IsDict(request) THEN Raised
    ELSE LET cmd_type == DictGet(request, K_type, JStr(<<>>))
             params == DictGet(request, K_params, JObj(<<>>))
         IN  IF cmd_type.t = "str" /\ cmd_type.s \in RegisteredTypes
             THEN LET h == RunHandler(cmd_type.s, params, gimp)
                  IN  IF h.raised THEN Caught(M_python_error)
                      ELSE h
             ELSE IF cmd_type.t = "str"
             THEN UnknownReply(cmd_type.s)
             ELSE IF cmd_type.t \in {"arr", "obj"} THEN Raised
             ELSE UnknownReply(PyFormat(cmd_type))

\* ------------------------------------------------------------------------
\* Bounds
\* ------------------------------------------------------------------------

\* Threads calling send_command on the one bridge.
NumThreads == 2

\* send_command calls made in all.
MaxCalls == 2

\* Connections the bridge opens in all.
MaxConn == 2

\* Faults of the environment in all: a shutdown of the server, a server
\* write that fails half way, a peer that answers with something else.
MaxFaults == 1

Threads == 1..NumThreads

Conns == 1..MaxConn

\* ------------------------------------------------------------------------
\* State
\* ------------------------------------------------------------------------

VARIABLES
    sock,        \* GimpBridge._sock: NoSock, or the connection it is the end of
    connected,   \* GimpBridge._connected
    command_id,  \* GimpBridge._command_id
    lock,        \* GimpBridge._lock: NoThread, or the thread that holds it
    thr,         \* per thread: where it is in send_command, and its locals
                 \* (pk, ps, hl, hf are history: how the call before it ended,
                 \* and the host when it began)
    conns,       \* per connection: both streams, the server's handler
    nconn,       \* connections opened so far
    running,     \* MCPProPlugin.running
    listening,   \* MCPProPlugin.server_socket is open and listening
    host,        \* run()'s accept loop, sys.stdout and what was printed to it
    gimp,        \* the host application: the images it has open
    calls,       \* send_command calls made so far
    faults,      \* faults so far: shutdowns, broken and short writes, timeouts
    sent,        \* history: the ids of the requests handed to _send, in order
    produced,    \* history: per request id, the response _dispatch produced
    last,        \* history: how the last call that ended on the bridge ended
    codec        \* one frame on its way through a decoder, chunk by chunk

vars == << sock, connected, command_id, lock, thr, conns, nconn, running,
           listening, gimp, host, calls, faults, sent, produced, last, codec >>

bridgeVars == << sock, connected, command_id, lock >>

serverVars == << running, listening, gimp, host >>

histVars == << sent, produced, last >>

NoSock == 0

NoThread == 0

\* No value: the place of a response that was never produced or returned.
JNone == [t |-> "none", n |-> 0, s |-> <<>>, a |-> <<>>]

\* GimpBridge.connected
Connected == connected /\ sock # NoSock

\* A lock that never holds anyone back.
AlwaysAcquire == TRUE

\* with self._lock: the lock can be taken.
CanAcquire == lock = NoThread

\* A counter that starts again.
ResetId(cid) == 1

\* GimpBridge._next_id
NextId(cid) == cid + 1

\* A lock that stays with its holder.
KeptLock(holder) == holder

\* The lock after the with block is left, by return or by exception.
ReleasedLock(holder) == NoThread

\* The connections after GimpBridge.disconnect closed the socket s.
CloseSock(cs, s) == IF s # NoSock THEN [cs EXCEPT ![s].copen = FALSE] ELSE cs

\* An except clause without self.disconnect(), and a raise with it.
NeverDisconnects == FALSE

AlwaysDisconnects == TRUE

\* timeout or OSError in send_command: self.disconnect() runs before the raise.
DisconnectsOnTimeout == TRUE

DisconnectsOnOSError == TRUE

\* A GimpCommandError is raised after the with block; nothing disconnects.
DisconnectsOnCommandError == FALSE

\* GimpConnectionError (raised by _recv_exact and _receive_length_prefixed)
\* and ValueError (json.loads, decode) are neither socket.timeout nor
\* OSError: no except clause of send_command catches them.
DisconnectsOnUncaught == FALSE

\* timeout=None: the caller passed no timeout.
NoTimeoutArg == 0 - 1

\* effective_timeout = timeout or self.timeout: None and 0 are both falsy.
EffectiveTimeout(timeout, default) ==
    IF timeout = NoTimeoutArg \/ timeout = 0 THEN default ELSE timeout

NoCall ==
    [n |-> 0, id |-> 0, kind |-> "none", value |-> JNone, connected |-> FALSE,
     sock |-> NoSock, used |-> NoSock, pk |-> "none", ps |-> NoSock,
     owners |-> {}, error |-> JNone, traceback |-> JNone, healthy |-> FALSE,
     attempts |-> 0, timeout |-> NoTimeoutArg, bound |-> 0]

IdleThread ==
    [pc |-> "idle", n |-> 0, ctype |-> <<>>, params |-> JNone, id |-> 0,
     len |-> 0, attempts |-> 0, rest |-> <<>>, used |-> NoSock,
     pk |-> "none", ps |-> NoSock, owners |-> {}, hl |-> FALSE, hf |-> 0,
     waits |-> <<>>, timeout |-> NoTimeoutArg]

NoConn ==
    [c2s |-> <<>>, s2c |-> <<>>, s2g |-> <<>>, srv |-> "none", len |-> 0,
     request |-> JNone, copen |-> FALSE, wr |-> <<>>, out |-> <<>>, rst |-> FALSE,
     raw |-> <<>>, tmo |-> 0, reads |-> 0, why |-> "", closes |-> 0,
     old |-> 0, cap |-> <<>>]

\* What a decoder call ended with, other than a value: nothing yet.
NoResult == [kind |-> "none", got |-> 0, of |-> 0]

\* No frame is on its way.  decl is the length the sender declared, eof
\* whether the sender closes after the bytes of wire, quiet and elapsed the
\* time since the last bytes came and since the request went out.
NoTransfer ==
    [msg |-> JNone, dir |-> "none", wire |-> <<>>, trail |-> 0, buf |-> <<>>,
     n |-> 0, phase |-> "idle", out |-> [ok |-> FALSE, v |-> JNull], hc |-> 0, bc |-> 0,
     decl |-> 0, eof |-> FALSE, res |-> NoResult, quiet |-> 0, elapsed |-> 0]

\* GimpBridge.__init__ and a plug-in that has not started to serve.
\* The plug-in's process before run(): run's accept loop is not entered,
\* sys.stdout is the interpreter's own stream (stream 0) and nothing was
\* written to it.  A stream c > 0 is the StringIO of connection c's handler.
NoHost == [loop |-> "off", stdout |-> 0, console |-> <<>>]

Constructed ==
    /\ sock = NoSock
    /\ connected = FALSE
    /\ command_id = 0
    /\ lock = NoThread
    /\ thr = [t \in Threads |-> IdleThread]
    /\ conns = [c \in Conns |-> NoConn]
    /\ nconn = 0
    /\ running = FALSE
    /\ listening = FALSE
    /\ gimp = "none"
    /\ host = NoHost
    /\ calls = 0
    /\ faults = 0
    /\ sent = <<>>
    /\ produced = [i \in 1..MaxCalls |-> JNone]
    /\ last = NoCall

Init ==
    /\ Constructed
    /\ codec = NoTransfer

\* ------------------------------------------------------------------------
\* The client: GimpBridge.send_command, one thread's steps
\* ------------------------------------------------------------------------

\* The waits between connection attempts, in tenths of a second.
RECONNECT_DELAYS == <<5, 10, 20, 40, 80>>

\* evaluate_python(expressions): the params of an eval command.
EvalParams(expr) ==
    JObj(<< <<K_args, JArr(<<JStr(V_eval), JArr(<<JStr(expr)>>)>>)>> >>)

\* What the n-th call of the run may ask for: the value of the literal n,
\* the value of an undefined name, the image.
\* evaluate_python is called without a timeout or with timeout=0;
\* get_image_bitmap passes LONG_TIMEOUT.
CallInputs(n) ==
    { [ctype |-> T_exec, params |-> EvalParams(DigitsOf(n)), timeout |-> NoTimeoutArg],
      [ctype |-> T_exec, params |-> EvalParams(<<"x">>), timeout |-> 0],
      [ctype |-> T_get_image_bitmap, params |-> JObj(<<>>), timeout |-> LONG_TIMEOUT] }

\* params or {}
ParamsOrEmpty(params) == IF params = JNone \/ params.a = <<>> THEN JObj(<<>>) ELSE params

\* payload = {"id": cmd_id, "type": command_type, "params": params or {}}
Payload(id, ctype, params) ==
    JObj(<< <<K_id, JInt(id)>>, <<K_type, JStr(ctype)>>,
            <<K_params, ParamsOrEmpty(params)>> >>)

\* The thread's locals once ensure_connected has returned: settimeout, then
\* cmd_id = self._next_id(); the request goes out on socket s.
Prepared(th, s) ==
    [th EXCEPT !.pc = "send", !.id = NextId(command_id), !.used = s, !.owners = {}]

\* self._sock.settimeout(effective_timeout) on socket s.
TimeoutSet(cs, s, timeout) ==
    [cs EXCEPT ![s].tmo = EffectiveTimeout(timeout, DEFAULT_TIMEOUT)]

\* The call of thread t ends: the with block has been left, the caller has
\* the value or the exception.  s and cflag are _sock and _connected then.
Finish(t, kind, value, s, cflag, owners, err, tb) ==
    /\ lock' = ReleasedLock(t)
    /\ thr' = [thr EXCEPT ![t] = IdleThread]
    /\ last' = [n |-> thr[t].n, id |-> thr[t].id, kind |-> kind, value |-> value,
                connected |-> cflag /\ s # NoSock, sock |-> s,
                used |-> thr[t].used, pk |-> thr[t].pk, ps |-> thr[t].ps,
                owners |-> owners, error |-> err, traceback |-> tb,
                healthy |-> /\ thr[t].hl /\ running /\ listening
                            /\ thr[t].hf = faults /\ kind # "timeout",
                attempts |-> IF kind = "connect_error" THEN thr[t].attempts + 1 ELSE 0,
                timeout |-> IF kind = "timeout" THEN thr[t].timeout ELSE NoTimeoutArg,
                bound |-> IF kind = "timeout"
                          THEN EffectiveTimeout(thr[t].timeout, DEFAULT_TIMEOUT) ELSE 0]

\* except socket.timeout / except (ConnectionError, OSError, BrokenPipeError)
\* / no except clause: the bridge as the exception leaves send_command.
Fail(t, kind, cs, disconnects, owners) ==
    /\ sock' = IF disconnects THEN NoSock ELSE sock
    /\ connected' = IF disconnects THEN FALSE ELSE connected
    /\ conns' = IF disconnects THEN CloseSock(cs, sock) ELSE cs
    /\ Finish(t, kind, JNone, IF disconnects THEN NoSock ELSE sock,
              IF disconnects THEN FALSE ELSE connected, owners, JNone, JNone)

\* send_command is called: effective_timeout is computed and the thread
\* reaches with self._lock.
Enter(t) ==
    /\ thr[t].pc = "idle"
    /\ calls < MaxCalls
    /\ thr' = [thr EXCEPT ![t].pc = "lock"]
    /\ calls' = calls + 1
    /\ UNCHANGED << bridgeVars, conns, nconn, serverVars, codec, faults, histVars >>

\* with self._lock is entered, and ensure_connected tests self.connected.
\* The call is the n-th to hold the lock; its arguments matter from here on.
Acquire(t) ==
    /\ thr[t].pc = "lock"
    /\ CanAcquire
    /\ \E inp \in CallInputs(last.n + 1) :
         LET th == [thr[t] EXCEPT !.n = last.n + 1, !.ctype = inp.ctype,
                                  !.params = inp.params, !.timeout = inp.timeout,
                                  !.pk = last.kind, !.ps = last.used,
                                  !.hl = running /\ listening, !.hf = faults]
         IN  /\ thr' = [thr EXCEPT ![t] =
                          IF Connected THEN Prepared(th, sock)
                          ELSE [th EXCEPT !.pc = "connect"]]
             /\ command_id' = IF Connected THEN NextId(command_id) ELSE command_id
             /\ conns' = IF Connected THEN TimeoutSet(conns, sock, inp.timeout) ELSE conns
    /\ lock' = t
    /\ UNCHANGED << sock, connected, nconn, serverVars, codec, calls, faults, histVars >>

\* A loop that is over one attempt early.
ExhaustedEarly(failed) == failed >= Len(RECONNECT_DELAYS) - 1

\* for delay in RECONNECT_DELAYS is over: every delay has been slept after
\* a failed attempt, and the final attempt is next.
LoopExhausted(failed) == failed = Len(RECONNECT_DELAYS)

\* A backoff that never grows.
SleptFirst(waits, k) == Append(waits, RECONNECT_DELAYS[1])

\* time.sleep(delay) after the k-th attempt failed.
Slept(waits, k) == Append(waits, RECONNECT_DELAYS[k])

\* connect(): one attempt, _do_connect.  It disconnects, makes a socket and
\* connects it; the attempt succeeds when the server listens.  After a
\* failure connect() sleeps and tries again, RECONNECT_DELAYS times; the
\* failure of the final attempt raises GimpConnectionError.
DoConnect(t) ==
    /\ thr[t].pc = "connect"
    /\ \/ /\ listening
          /\ nconn < MaxConn
          /\ nconn' = nconn + 1
          /\ sock' = nconn + 1
          /\ connected' = TRUE
          /\ conns' = TimeoutSet(
                         [CloseSock(conns, sock) EXCEPT
                            ![nconn + 1] = [NoConn EXCEPT !.srv = "queued", !.copen = TRUE,
                                                          !.tmo = DEFAULT_TIMEOUT]],
                         nconn + 1, thr[t].timeout)
          /\ thr' = [thr EXCEPT ![t] = Prepared(thr[t], nconn + 1)]
          /\ command_id' = NextId(command_id)
          /\ UNCHANGED << lock, serverVars, codec, calls, faults, histVars >>
       \/ /\ ~listening
          /\ ~LoopExhausted(thr[t].attempts)
          /\ sock' = NoSock
          /\ connected' = FALSE
          /\ conns' = CloseSock(conns, sock)
          /\ thr' = [thr EXCEPT ![t].attempts = @ + 1,
                                ![t].waits = Slept(@, thr[t].attempts + 1)]
          /\ UNCHANGED << command_id, lock, nconn, serverVars, codec, calls, faults, histVars >>
       \/ /\ ~listening
          /\ LoopExhausted(thr[t].attempts)
          /\ Fail(t, "connect_error", conns, TRUE, {})
          /\ UNCHANGED << command_id, nconn, serverVars, codec, calls, faults, sent, produced >>

\* The server's end of connection c is closed: recv returns b"" once the
\* stream is drained.
PeerClosed(c) == conns[c].srv = "closed"

\* The server's end was closed with bytes of the client unread, or never
\* accepted, or the client wrote after the close: the kernel answers with a
\* reset, and recv and send may raise ConnectionResetError / BrokenPipeError.
PeerReset(c) == PeerClosed(c) /\ (conns[c].rst \/ conns[c].c2s # <<>>)

\* recv may return b"": the server's end was closed in good order.
PeerEof(c) == PeerClosed(c) /\ ~conns[c].rst

\* self._send(payload): sendall(header + data).  The kernel takes the frame
\* whole, or the header first and the rest in a later step; a write to a
\* connection the peer has closed may raise (BrokenPipeError), and so may
\* the read that follows it (ConnectionResetError, see RecvHeader).
Send(t) ==
    /\ thr[t].pc = "send"
    /\ sock # NoSock
    /\ LET frame == ClientFrame(Payload(thr[t].id, thr[t].ctype, thr[t].params))
       IN  \/ /\ conns' = [conns EXCEPT ![sock].c2s = @ \o frame,
                                        ![sock].wr = Append(@, thr[t].id)]
              /\ thr' = [thr EXCEPT ![t].pc = "recv_header"]
              /\ sent' = Append(sent, thr[t].id)
              /\ UNCHANGED << bridgeVars, nconn, serverVars, codec, calls, faults,
                              produced, last >>
           \/ /\ faults < MaxFaults
              /\ faults' = faults + 1
              /\ conns' = [conns EXCEPT
                             ![sock].c2s = @ \o SubSeq(frame, 1, HEADER_SIZE),
                             ![sock].wr = Append(@, thr[t].id)]
              /\ thr' = [thr EXCEPT ![t].pc = "send_rest",
                                    ![t].rest = SubSeq(frame, HEADER_SIZE + 1, Len(frame))]
              /\ sent' = Append(sent, thr[t].id)
              /\ UNCHANGED << bridgeVars, nconn, serverVars, codec, calls, produced, last >>
           \/ /\ PeerReset(sock)
              /\ sent' = Append(sent, thr[t].id)
              /\ Fail(t, "io_error", conns, DisconnectsOnOSError, {})
              /\ UNCHANGED << command_id, nconn, serverVars, codec, calls, faults, produced >>

\* sendall goes on: the rest of the frame.
SendRest(t) ==
    /\ thr[t].pc = "send_rest"
    /\ sock # NoSock
    /\ conns' = [conns EXCEPT ![sock].c2s = @ \o thr[t].rest,
                              ![sock].wr = Append(@, thr[t].id)]
    /\ thr' = [thr EXCEPT ![t].pc = "recv_header", ![t].rest = <<>>]
    /\ UNCHANGED << bridgeVars, nconn, serverVars, codec, calls, faults, histVars >>

\* socket.timeout in recv: the server is slow to answer (a fault), or it is
\* in the middle of a write that the kernel took in part.
MayTimeOut == faults < MaxFaults \/ conns[sock].srv = "sending"

\* _recv_exact(n) on the bridge's socket, as one step: the n bytes when the
\* stream holds them; what it held, when the peer closed before that.
RecvExact(n) == SplitAt(conns[sock].s2c, conns[sock].s2g, n, <<>>, {})

Drained(cs, sp) == [cs EXCEPT ![sock].s2c = sp.rest, ![sock].s2g = sp.restg]

\* _receive_length_prefixed, the header: header = self._recv_exact(4),
\* length = unpack, and the test against MAX_MESSAGE_SIZE.
RecvHeader(t) ==
    /\ thr[t].pc = "recv_header"
    /\ sock # NoSock
    /\ LET sp == RecvExact(HEADER_SIZE)
           seen == thr[t].owners \cup sp.owners
       IN  \/ /\ Len(sp.got) = HEADER_SIZE
              /\ ~TooLarge(Unpack(sp.got))
              /\ conns' = Drained(conns, sp)
              /\ thr' = [thr EXCEPT ![t].pc = "recv_body", ![t].len = Unpack(sp.got),
                                    ![t].owners = seen]
              /\ UNCHANGED << bridgeVars, nconn, serverVars, codec, calls, faults, histVars >>
           \/ /\ Len(sp.got) = HEADER_SIZE
              /\ TooLarge(Unpack(sp.got))
              /\ Fail(t, "oversize", Drained(conns, sp), DisconnectsOnUncaught, seen)
              /\ UNCHANGED << command_id, nconn, serverVars, codec, calls, faults, sent, produced >>
           \/ /\ Len(sp.got) < HEADER_SIZE
              /\ PeerEof(sock)
              /\ Fail(t, "closed", Drained(conns, sp), DisconnectsOnUncaught, seen)
              /\ UNCHANGED << command_id, nconn, serverVars, codec, calls, faults, sent, produced >>
           \/ /\ Len(sp.got) < HEADER_SIZE
              /\ ~PeerClosed(sock)
              /\ MayTimeOut
              /\ faults' = IF faults < MaxFaults THEN faults + 1 ELSE faults
              /\ Fail(t, "timeout", Drained(conns, sp), DisconnectsOnTimeout, seen)
              /\ UNCHANGED << command_id, nconn, serverVars, codec, calls, sent, produced >>
           \/ /\ PeerReset(sock)
              /\ Fail(t, "io_error", conns, DisconnectsOnOSError, seen)
              /\ UNCHANGED << command_id, nconn, serverVars, codec, calls, faults, sent, produced >>

\* _receive_length_prefixed, the body: data = self._recv_exact(length) and
\* json.loads(data.decode("utf-8")); then the end of send_command: the with
\* block is left and the response's status is looked at.
RecvBody(t) ==
    /\ thr[t].pc = "recv_body"
    /\ sock # NoSock
    /\ LET sp == RecvExact(thr[t].len)
           seen == thr[t].owners \cup sp.owners
           d == DecodeBody(sp.got)
           isError == /\ IsDict(d.v)
                      /\ DictGet(d.v, K_status, JNone) = JStr(V_error)
       IN  \/ /\ Len(sp.got) = thr[t].len
              /\ d.ok
              /\ ~isError
              /\ conns' = Drained(conns, sp)
              /\ Finish(t, "ok", d.v, sock, connected, seen, JNone, JNone)
              /\ UNCHANGED << sock, connected, command_id, nconn, serverVars, codec, calls,
                              faults, sent, produced >>
           \/ /\ Len(sp.got) = thr[t].len
              /\ d.ok
              /\ isError
              /\ sock' = IF DisconnectsOnCommandError THEN NoSock ELSE sock
              /\ connected' = IF DisconnectsOnCommandError THEN FALSE ELSE connected
              /\ conns' = IF DisconnectsOnCommandError
                          THEN CloseSock(Drained(conns, sp), sock)
                          ELSE Drained(conns, sp)
              /\ Finish(t, "command_error", JNone, sock', connected', seen,
                        DictGet(d.v, K_error, JStr(M_unknown_gimp_error)),
                        DictGet(d.v, K_traceback, JNull))
              /\ UNCHANGED << command_id, nconn, serverVars, codec, calls, faults, sent, produced >>
           \/ /\ Len(sp.got) = thr[t].len
              /\ ~d.ok
              /\ Fail(t, "decode_error", Drained(conns, sp), DisconnectsOnUncaught, seen)
              /\ UNCHANGED << command_id, nconn, serverVars, codec, calls, faults, sent, produced >>
           \/ /\ Len(sp.got) < thr[t].len
              /\ PeerEof(sock)
              /\ Fail(t, "closed", Drained(conns, sp), DisconnectsOnUncaught, seen)
              /\ UNCHANGED << command_id, nconn, serverVars, codec, calls, faults, sent, produced >>
           \/ /\ Len(sp.got) < thr[t].len
              /\ ~PeerClosed(sock)
              /\ MayTimeOut
              /\ faults' = IF faults < MaxFaults THEN faults + 1 ELSE faults
              /\ Fail(t, "timeout", Drained(conns, sp), DisconnectsOnTimeout, seen)
              /\ UNCHANGED << command_id, nconn, serverVars, codec, calls, sent, produced >>

\* ------------------------------------------------------------------------
\* The server: MCPProPlugin.run, _shutdown and _handle_client
\* ------------------------------------------------------------------------

\* run(): the plug-in starts serving; it binds and listens.  The host has
\* no image open, a small one, or one whose export is above the maximum.
HostStart ==
    /\ ~running
    /\ host.loop = "off"
    /\ running' = TRUE
    /\ listening' = TRUE
    /\ gimp' \in GimpStates
    /\ host' = [host EXCEPT !.loop = "accept"]
    /\ UNCHANGED codec
    /\ UNCHANGED << bridgeVars, thr, conns, nconn, calls, faults, histVars >>

\* _shutdown: running = False and the listening socket is closed; the
\* connections nobody accepted yet are reset with it.
Shutdown ==
    /\ running
    /\ faults < MaxFaults
    /\ faults' = faults + 1
    /\ running' = FALSE
    /\ listening' = FALSE
    /\ conns' = [c \in Conns |->
                   IF conns[c].srv = "queued"
                   THEN [conns[c] EXCEPT !.srv = "closed", !.rst = TRUE,
                                         !.why = "listener"]
                   ELSE conns[c]]
    /\ UNCHANGED << bridgeVars, thr, nconn, gimp, host, calls, histVars, codec >>

\* An accept loop that never looks at self.running again.
LoopForever == TRUE

\* The condition of run()'s accept loop: while self.running.
LoopGoesOn == running

\* run(): accept() has timed out after its second, or raised OSError on the
\* closed socket; self.running is false and the loop is left.
AcceptLoopExit ==
    /\ host.loop = "accept"
    /\ ~LoopGoesOn
    /\ host' = [host EXCEPT !.loop = "off"]
    /\ UNCHANGED << bridgeVars, thr, conns, nconn, running, listening, gimp, calls,
                    faults, histVars, codec >>

\* An accept loop that serves each client itself before it accepts again.
HandledInline(c) ==
    \A d \in Conns : d # c => conns[d].srv \in {"none", "queued", "closed"}

\* threading.Thread(target=self._handle_client, ...).start(): the handler
\* of a new connection runs beside the others.
HandlerStarts(c) == TRUE

\* run(): accept() returns connection c and a thread starts _handle_client
\* on it, which enters its loop while self.running.
Accept(c) ==
    /\ conns[c].srv = "queued"
    /\ running
    /\ listening
    /\ host.loop = "accept"
    /\ HandlerStarts(c)
    /\ conns' = [conns EXCEPT ![c].srv = "header"]
    /\ UNCHANGED << bridgeVars, thr, nconn, serverVars, codec, calls, faults, histVars >>

\* The id of a request, for the history only (the server never reads it).
IdOf(request) ==
    IF IsDict(request) /\ DictGet(request, K_id, JNone).t = "int"
    THEN DictGet(request, K_id, JNone).n ELSE 0

\* A loop that is left after every response.
LoopLeft == "closed"

\* The handler's state at the top of its loop: while self.running goes on,
\* or the loop is left and finally closes the client socket.
LoopTop == IF running THEN "header" ELSE "closed"

\* The handler goes to state: on "closed" it has left its loop and finally
\* runs client.close(), once; why tells what made it leave (the end of the
\* stream, a socket error, the loop's condition).
Closing(cn, state, why) ==
    IF state = "closed"
    THEN [cn EXCEPT !.srv = "closed", !.why = why, !.closes = @ + 1]
    ELSE [cn EXCEPT !.srv = state]

\* A handler that answers the end of the stream before it closes.
EndOfStreamAnswered(cn) ==
    Closing([cn EXCEPT !.c2s = <<>>, !.s2c = @ \o ServerFrame(ErrorDict(<<>>))],
            "closed", "eof")

\* request is None: break, and the socket is closed without a response.
EndOfStream(cn) == Closing([cn EXCEPT !.c2s = <<>>], "closed", "eof")

\* A handler that goes back to the top of its loop without a response.
Unanswered(cn, resp, id) ==
    Closing([cn EXCEPT !.rst = ~running /\ cn.c2s # <<>>, !.len = 0, !.request = JNone],
            LoopTop, "loop_exit")

\* _send_message(client, resp) returned: the frame is in the stream (a frame
\* written to a connection the client has closed goes nowhere), and the
\* loop is at its top again.  id is the request the bytes answer.
Replied(cn, resp, id) ==
    LET frame == ServerFrame(resp)
    IN  Closing([cn EXCEPT !.s2c = IF cn.copen THEN @ \o frame ELSE @,
                           !.s2g = IF cn.copen THEN @ \o Owned(frame, id) ELSE @,
                           !.rst = ~running /\ cn.c2s # <<>>,
                           !.len = 0, !.request = JNone],
                LoopTop, "loop_exit")

\* except Exception as e in _handle_client: the error response.
HandlerError(msg) == ErrorWithTrace(msg)

\* _receive_message, the header: _recv_exact(sock, 4), None at end of stream
\* (the loop breaks and the socket is closed), ValueError above the maximum
\* (the loop's except Exception answers with an error response).
SrvRecvHeader(c) ==
    /\ conns[c].srv = "header"
    /\ LET cn == conns[c]
           sp == SplitAt(cn.c2s, Owned(cn.c2s, 0), HEADER_SIZE, <<>>, {})
       IN  \/ /\ Len(sp.got) = HEADER_SIZE
              /\ ~TooLarge(Unpack(sp.got))
              /\ conns' = [conns EXCEPT ![c].c2s = sp.rest, ![c].srv = "body",
                                        ![c].len = Unpack(sp.got)]
           \/ /\ Len(sp.got) = HEADER_SIZE
              /\ TooLarge(Unpack(sp.got))
              /\ conns' = [conns EXCEPT ![c] =
                             Replied([cn EXCEPT !.c2s = sp.rest, !.reads = @ + 1],
                                     HandlerError(M_too_large \o DumpInt(Unpack(sp.got))), 0)]
           \/ /\ Len(sp.got) < HEADER_SIZE
              /\ ~cn.copen
              /\ conns' = [conns EXCEPT ![c] = EndOfStream(cn)]
    /\ UNCHANGED << bridgeVars, thr, nconn, serverVars, codec, calls, faults, histVars >>

\* _receive_message, the body: _recv_exact(sock, length) and json.loads.
SrvRecvBody(c) ==
    /\ conns[c].srv = "body"
    /\ LET cn == conns[c]
           sp == SplitAt(cn.c2s, Owned(cn.c2s, 0), cn.len, <<>>, {})
           d == DecodeBody(sp.got)
       IN  \/ /\ Len(sp.got) = cn.len
              /\ d.ok
              /\ conns' = [conns EXCEPT ![c].c2s = sp.rest, ![c].srv = "dispatch",
                                        ![c].request = d.v, ![c].reads = @ + 1]
           \/ /\ Len(sp.got) = cn.len
              /\ ~d.ok
              /\ conns' = [conns EXCEPT ![c] =
                             Replied([cn EXCEPT !.c2s = sp.rest, !.reads = @ + 1],
                                     HandlerError(M_python_error), 0)]
           \/ /\ Len(sp.got) < cn.len
              /\ ~cn.copen
              /\ conns' = [conns EXCEPT ![c] = EndOfStream(cn)]
    /\ UNCHANGED << bridgeVars, thr, nconn, serverVars, codec, calls, faults, histVars >>

\* A body that is no JSON text, as a peer that is not this plug-in writes.
GarbageBody == << Ord("{") >>

\* Where a write that fails or pauses half way stops: before the frame,
\* inside the header, inside the body.
CutPoints == {0, 2, 6}

\* response = self._dispatch(request); self._send_message(client, response).
\* A request _dispatch raises on is answered by the loop's except Exception.
\* sendall may fail after part of the frame (the except clause breaks the
\* loop and the socket is closed), or the kernel may take part of the frame
\* now and the rest later (SrvSendRest).
SrvDispatch(c) ==
    /\ conns[c].srv = "dispatch"
    /\ LET cn == conns[c]
           id == IdOf(cn.request)
       IN    LET r == Dispatch(cn.request, gimp)
                 resp == IF r.raised THEN HandlerError(M_python_error) ELSE r.resp
                 frame == ServerFrame(resp)
             IN  \/ /\ conns' = [conns EXCEPT ![c] = Replied(cn, resp, id)]
                    /\ produced' = IF id \in DOMAIN produced
                                   THEN [produced EXCEPT ![id] = resp] ELSE produced
                    /\ faults' = faults
                 \/ /\ faults < MaxFaults
                    /\ faults' = faults + 1
                    /\ \E k \in CutPoints, fails \in BOOLEAN :
                         /\ k < Len(frame)
                         /\ fails \/ k > 0
                         /\ conns' = [conns EXCEPT ![c] =
                                        Closing([cn EXCEPT
                                                   !.s2c = IF cn.copen
                                                           THEN @ \o SubSeq(frame, 1, k) ELSE @,
                                                   !.s2g = IF cn.copen
                                                           THEN @ \o Owned(SubSeq(frame, 1, k), id)
                                                           ELSE @,
                                                   !.rst = fails /\ cn.c2s # <<>>,
                                                   !.out = IF fails THEN <<>>
                                                           ELSE SubSeq(frame, k + 1, Len(frame)),
                                                   !.request = IF fails THEN JNone ELSE @,
                                                   !.len = 0],
                                                IF fails THEN "closed" ELSE "sending", "io")]
                    /\ produced' = IF id \in DOMAIN produced
                                   THEN [produced EXCEPT ![id] = resp] ELSE produced
                 \/ /\ faults < MaxFaults
                    /\ faults' = faults + 1
                    /\ conns' = [conns EXCEPT ![c] =
                                   [Replied(cn, JNull, id) EXCEPT
                                      !.s2c = cn.s2c \o Frame(GarbageBody),
                                      !.s2g = cn.s2g \o Owned(Frame(GarbageBody), id)]]
                    /\ produced' = produced
    /\ UNCHANGED << bridgeVars, thr, nconn, serverVars, codec, calls, sent, last >>

\* sendall goes on: the rest of the response, and the loop is at its top.
SrvSendRest(c) ==
    /\ conns[c].srv = "sending"
    /\ LET cn == conns[c]
       IN  conns' = [conns EXCEPT ![c] =
                       Closing([cn EXCEPT
                                  !.s2c = IF cn.copen THEN @ \o cn.out ELSE @,
                                  !.s2g = IF cn.copen
                                          THEN @ \o Owned(cn.out, IdOf(cn.request)) ELSE @,
                                  !.rst = ~running /\ cn.c2s # <<>>,
                                  !.out = <<>>, !.request = JNone],
                               LoopTop, "loop_exit")]
    /\ UNCHANGED << bridgeVars, thr, nconn, serverVars, codec, calls, faults, histVars >>

\* ------------------------------------------------------------------------
\* The system
\* ------------------------------------------------------------------------

Next ==
    \/ \E t \in Threads : Enter(t)
    \/ \E t \in Threads : Acquire(t)
    \/ \E t \in Threads : DoConnect(t)
    \/ \E t \in Threads : Send(t)
    \/ \E t \in Threads : SendRest(t)
    \/ \E t \in Threads : RecvHeader(t)
    \/ \E t \in Threads : RecvBody(t)
    \/ HostStart
    \/ Shutdown
    \/ AcceptLoopExit
    \/ \E c \in Conns : Accept(c)
    \/ \E c \in Conns : SrvRecvHeader(c)
    \/ \E c \in Conns : SrvRecvBody(c)
    \/ \E c \in Conns : SrvDispatch(c)
    \/ \E c \in Conns : SrvSendRest(c)

Spec == Init /\ [][Next]_vars

\* ------------------------------------------------------------------------
\* The server alone: any client on its connections
\* ------------------------------------------------------------------------

\* Frames a client writes on its connection, and clients that connect.
MaxRawFrames == 2

MaxRawConn == 1

\* A command type the plug-in has no handler for.
T_nope == <<"n", "o", "p", "e">>

\* What a client may write: a request that is answered, one whose handler
\* raises, one of an unknown type, a header above the maximum (alone, and
\* with the first bytes of its body behind it), a body that is no JSON, a
\* body that is no UTF-8, a JSON text that is no object, a request whose
\* type is a list.
RawTags ==
    {"eval", "raise", "unknown", "oversize", "oversize_body", "garbage", "badutf8",
     "list", "listtype"}

RawBytes(tag) ==
    CASE tag = "eval"    -> ClientFrame(Payload(7, T_exec, EvalParams(<<"1">>)))
      [] tag = "raise"   -> ClientFrame(Payload(8, T_exec, EvalParams(<<"x">>)))
      [] tag = "unknown" -> ClientFrame(Payload(9, T_nope, JNone))
      [] tag = "oversize" -> Pack(MAX_MESSAGE_SIZE + 1)
      [] tag = "oversize_body" ->
            Pack(MAX_MESSAGE_SIZE + 1) \o << RunByte, RunByte, RunByte, RunByte, RunByte >>
      [] tag = "garbage" -> Frame(GarbageBody)
      [] tag = "badutf8" -> Frame(<< 255 >>)
      [] tag = "list" -> ClientFrame(JArr(<< JInt(1) >>))
      [] tag = "listtype" -> ClientFrame(JObj(<< <<K_type, JArr(<<>>)>> >>))

\* accept() will return one more connection: a client has connected.
RawConnect ==
    /\ listening
    /\ nconn < MaxConn
    /\ nconn < MaxRawConn
    /\ nconn' = nconn + 1
    /\ conns' = [conns EXCEPT ![nconn + 1] = [NoConn EXCEPT !.srv = "queued", !.copen = TRUE]]
    /\ UNCHANGED << bridgeVars, thr, serverVars, codec, calls, faults, histVars >>

\* The client writes to its connection; sock.recv on the server will see it.
RawSend(c) ==
    /\ conns[c].copen
    /\ Len(conns[c].raw) < MaxRawFrames
    /\ \E tag \in RawTags :
         conns' = [conns EXCEPT ![c].c2s = @ \o RawBytes(tag), ![c].raw = Append(@, tag)]
    /\ UNCHANGED << bridgeVars, thr, nconn, serverVars, codec, calls, faults, histVars >>

\* The client closes its connection; sock.recv on the server will return b"".
RawClose(c) ==
    /\ conns[c].copen
    /\ conns' = [conns EXCEPT ![c].copen = FALSE]
    /\ UNCHANGED << bridgeVars, thr, nconn, serverVars, codec, calls, faults, histVars >>

NextServer ==
    \/ HostStart
    \/ Shutdown
    \/ AcceptLoopExit
    \/ RawConnect
    \/ \E c \in Conns : RawSend(c)
    \/ \E c \in Conns : RawClose(c)
    \/ \E c \in Conns : Accept(c)
    \/ \E c \in Conns : SrvRecvHeader(c)
    \/ \E c \in Conns : SrvRecvBody(c)
    \/ \E c \in Conns : SrvDispatch(c)
    \/ \E c \in Conns : SrvSendRest(c)

SpecServer == Init /\ [][NextServer]_vars

\* ------------------------------------------------------------------------
\* Handlers side by side: exec_and_capture step by step
\* ------------------------------------------------------------------------

\* params of a console-mode exec of one line.
ConsoleParams(code) ==
    JObj(<< <<K_args, JArr(<<JStr(V_console), JArr(<<JStr(code)>>)>>)>> >>)

\* The one code line of the request in the handler's hands.
CodeOf(request) ==
    DictGet(DictGet(request, K_params, JObj(<<>>)), K_args, JArr(<<>>)).a[2].a[1]

\* A client connects; accept() will return its connection.
ClientConnect ==
    /\ listening
    /\ nconn < MaxConn
    /\ nconn' = nconn + 1
    /\ conns' = [conns EXCEPT ![nconn + 1] = [NoConn EXCEPT !.srv = "queued", !.copen = TRUE]]
    /\ UNCHANGED << bridgeVars, thr, serverVars, codec, calls, faults, histVars >>

\* The client of connection c asks for its own number to be printed.
PrintSend(c) ==
    /\ conns[c].copen
    /\ conns[c].raw = <<>>
    /\ conns' = [conns EXCEPT
                   ![c].c2s = @ \o ClientFrame(Payload(c, T_exec, ConsoleParams(PrintCode(c)))),
                   ![c].raw = <<"print">>]
    /\ UNCHANGED << bridgeVars, thr, nconn, serverVars, codec, calls, faults, histVars >>

\* exec_and_capture: buf = io.StringIO(); old_stdout = sys.stdout
ExecSave(c) ==
    /\ conns[c].srv = "dispatch"
    /\ conns' = [conns EXCEPT ![c].srv = "exec_saved", ![c].old = host.stdout,
                              ![c].cap = <<>>]
    /\ UNCHANGED << bridgeVars, thr, nconn, serverVars, codec, calls, faults, histVars >>

\* exec_and_capture: sys.stdout = buf
ExecSwap(c) ==
    /\ conns[c].srv = "exec_saved"
    /\ conns' = [conns EXCEPT ![c].srv = "exec_swapped"]
    /\ host' = [host EXCEPT !.stdout = c]
    /\ UNCHANGED << bridgeVars, thr, nconn, running, listening, gimp, codec, calls,
                    faults, histVars >>

\* exec_and_capture: exec(command, context); print writes to whatever
\* sys.stdout is when it runs.
ExecRun(c) ==
    /\ conns[c].srv = "exec_swapped"
    /\ LET out == Printed(CodeOf(conns[c].request))
       IN  IF host.stdout = 0
           THEN /\ host' = [host EXCEPT !.console = @ \o out]
                /\ conns' = [conns EXCEPT ![c].srv = "exec_ran"]
           ELSE /\ host' = host
                /\ conns' = [d \in Conns |->
                               [conns[d] EXCEPT
                                  !.cap = IF d = host.stdout THEN @ \o out ELSE @,
                                  !.srv = IF d = c THEN "exec_ran" ELSE @]]
    /\ UNCHANGED << bridgeVars, thr, nconn, running, listening, gimp, codec, calls,
                    faults, histVars >>

\* exec_and_capture: finally: sys.stdout = old_stdout
ExecRestore(c) ==
    /\ conns[c].srv = "exec_ran"
    /\ conns' = [conns EXCEPT ![c].srv = "exec_restored"]
    /\ host' = [host EXCEPT !.stdout = conns[c].old]
    /\ UNCHANGED << bridgeVars, thr, nconn, running, listening, gimp, codec, calls,
                    faults, histVars >>

\* return buf.getvalue(); _handle_exec returns the results and the loop
\* writes the response.
ExecReply(c) ==
    /\ conns[c].srv = "exec_restored"
    /\ conns' = [conns EXCEPT ![c] =
                   Replied(conns[c], SuccessDict(JArr(<< JStr(conns[c].cap) >>)),
                           IdOf(conns[c].request))]
    /\ UNCHANGED << bridgeVars, thr, nconn, serverVars, codec, calls, faults, histVars >>

NextHandlers ==
    \/ HostStart
    \/ ClientConnect
    \/ \E c \in Conns : PrintSend(c)
    \/ \E c \in Conns : RawClose(c)
    \/ \E c \in Conns : Accept(c)
    \/ \E c \in Conns : SrvRecvHeader(c)
    \/ \E c \in Conns : SrvRecvBody(c)
    \/ \E c \in Conns : ExecSave(c)
    \/ \E c \in Conns : ExecSwap(c)
    \/ \E c \in Conns : ExecRun(c)
    \/ \E c \in Conns : ExecRestore(c)
    \/ \E c \in Conns : ExecReply(c)

SpecHandlers == Init /\ [][NextHandlers]_vars

\* The server with its accept loop scheduled: accept() waits one second at
\* most (settimeout(1.0)), so a loop that can leave does leave.
SpecShutdown == Init /\ [][NextServer]_vars /\ WF_vars(AcceptLoopExit)

\* ------------------------------------------------------------------------
\* The bridge's owner: disconnect() between commands
\* ------------------------------------------------------------------------

\* The bridge as disconnect() sees and leaves it.
BridgeNow == [sock |-> sock, connected |-> connected, conns |-> conns]

\* A disconnect that keeps the socket object.
MarkedOnly(b, raises) == [b EXCEPT !.connected = FALSE]

\* GimpBridge.disconnect: if self._sock is not None, close it (an exception
\* of close is swallowed: raises) and set _sock = None; _connected = False.
Disconnected(b, raises) ==
    [sock |-> NoSock, connected |-> FALSE, conns |-> CloseSock(b.conns, b.sock)]

\* disconnect() is called while no send_command holds the lock.
Disconnect ==
    /\ lock = NoThread
    /\ \E raises \in BOOLEAN :
         LET d == Disconnected(BridgeNow, raises)
         IN  /\ sock' = d.sock
             /\ connected' = d.connected
             /\ conns' = d.conns
    /\ UNCHANGED << command_id, lock, thr, nconn, serverVars, codec, calls, faults, histVars >>

NextLifecycle ==
    \/ Next
    \/ Disconnect

SpecLifecycle == Init /\ [][NextLifecycle]_vars

\* ------------------------------------------------------------------------
\* The bridge's owner: disconnect() from another thread at any time
\* ------------------------------------------------------------------------

\* The command of thread t finds the socket gone: assert self._sock is not
\* None fails in _send, _receive or _recv_exact (no except clause catches
\* AssertionError), or the recv or sendall that was under way raises
\* OSError on the closed socket and the except clause disconnects.
Interrupted(t) ==
    /\ thr[t].pc \in {"send", "send_rest", "recv_header", "recv_body"}
    /\ sock = NoSock
    /\ \/ Fail(t, "assertion", conns, DisconnectsOnUncaught, thr[t].owners)
       \/ Fail(t, "io_error", conns, DisconnectsOnOSError, thr[t].owners)
    /\ UNCHANGED << command_id, nconn, serverVars, codec, calls, faults, sent, produced >>

\* disconnect() is called, directly or by __exit__, from a thread that is
\* not in send_command: it takes no lock, so it runs at any time.
RacingDisconnect ==
    /\ faults < MaxFaults
    /\ faults' = faults + 1
    /\ \E raises \in BOOLEAN :
         LET d == Disconnected(BridgeNow, raises)
         IN  /\ sock' = d.sock
             /\ connected' = d.connected
             /\ conns' = d.conns
    /\ UNCHANGED << command_id, lock, thr, nconn, serverVars, codec, calls, histVars >>

NextRace ==
    \/ Next
    \/ RacingDisconnect
    \/ \E t \in Threads : Interrupted(t)

SpecRace == Init /\ [][NextRace]_vars

\* ------------------------------------------------------------------------
\* The codec alone: one frame through _recv_exact, chunk by chunk
\* ------------------------------------------------------------------------

\* The messages framed: objects with nesting, an escape, a negative number,
\* true and null, and the empty object.
CodecMessages ==
    { JObj(<<>>),
      Payload(1, T_exec, JObj(<<>>)),
      SuccessDict(JArr(<<JStr(<<"1">>)>>)),
      JObj(<< <<K_error, JStr(<<"a", "\"", "\\", "b">>)>> >>),
      JObj(<< <<K_id, JInt(0 - 7)>>, <<K_args, JArr(<<JBool(TRUE), JNull>>)>> >>) }

\* What follows the frame in the stream: nothing, or the next frame.
Trailers == { <<>>, Frame(Utf8Encode(JsonDumps(JObj(<<>>)))) }

\* Chunks counted per part of the frame, up to this many.
MaxChunksCounted == 2

\* The effective timeout of the client's socket, in ticks of the clock, and
\* the ticks the clock is followed for.
TimeoutTicks == 2

MaxElapsed == 4

CodecStart(m, dir, trailer) ==
    [NoTransfer EXCEPT
       !.msg = m, !.dir = dir,
       !.wire = (IF dir = "c2s" THEN ClientFrame(m) ELSE ServerFrame(m)) \o trailer,
       !.trail = Len(trailer), !.n = HEADER_SIZE, !.phase = "header",
       !.decl = ByteLen(Utf8Encode(JsonDumps(m)))]

InitCodec ==
    /\ Constructed
    /\ codec \in { CodecStart(m, dir, trailer) :
                     m \in CodecMessages, dir \in {"c2s", "s2c"}, trailer \in Trailers }

\* A size that does not look at what is still missing.
WholeBuffer(remaining) == RECV_CAP

\* GimpBridge._recv_exact: the size asked of recv.
ClientRecvSize(remaining) == IF remaining < RECV_CAP THEN remaining ELSE RECV_CAP

\* MCPProPlugin._recv_exact: the size asked of recv.
ServerRecvSize(remaining) == IF remaining < RECV_CAP THEN remaining ELSE RECV_CAP

Counted(k) == IF k < MaxChunksCounted THEN k + 1 ELSE k

\* data.extend(chunk): a run that goes on stays one element.
Extended(data, chunk) ==
    IF data # <<>> /\ chunk # <<>> /\ data[Len(data)] < 0 /\ chunk[1] < 0
    THEN SubSeq(data, 1, Len(data) - 1) \o <<data[Len(data)] + chunk[1]>> \o Tail(chunk)
    ELSE data \o chunk

\* One turn of the loop of _recv_exact with chunk, and, once the loop ends,
\* what _receive_length_prefixed / _receive_message does with the bytes:
\* struct.unpack (which raises on a header that is not 4 bytes long), the
\* test against MAX_MESSAGE_SIZE, the next _recv_exact, the decoding.
AfterChunk(c, chunk, rest) ==
    LET data == Extended(c.buf, chunk)
        more == [c EXCEPT !.wire = rest, !.buf = data, !.quiet = 0,
                          !.hc = IF c.phase = "header" THEN Counted(@) ELSE @,
                          !.bc = IF c.phase = "body" THEN Counted(@) ELSE @]
    IN  IF ByteLen(data) < c.n THEN more
        ELSE IF c.phase = "body"
        THEN [more EXCEPT !.phase = "done", !.out = DecodeBody(data), !.buf = <<>>]
        ELSE IF ByteLen(data) # HEADER_SIZE THEN [more EXCEPT !.phase = "failed"]
        ELSE IF TooLarge(Unpack(data)) THEN [more EXCEPT !.phase = "rejected"]
        ELSE IF Unpack(data) = 0
        THEN [more EXCEPT !.phase = "done", !.out = DecodeBody(<<>>), !.buf = <<>>]
        ELSE [more EXCEPT !.phase = "body", !.n = Unpack(data), !.buf = <<>>]

\* recv(size) returns a non-empty chunk of at most size bytes of the stream:
\* any number of the bytes that lead it, or as much of a run as size allows.
Chunks(size) ==
    IF codec.wire # <<>> /\ Head(codec.wire) < 0
    THEN { IF 0 - Head(codec.wire) < size THEN 0 - Head(codec.wire) ELSE size }
    ELSE { k \in 1..Len(codec.wire) : k <= size /\ \A i \in 1..k : codec.wire[i] >= 0 }

\* The chunk of k bytes recv returns, and the stream behind it.
TakeChunk(wire, k) ==
    IF Head(wire) < 0
    THEN [chunk |-> <<0 - k>>,
          rest |-> IF k = 0 - Head(wire) THEN Tail(wire) ELSE <<Head(wire) + k>> \o Tail(wire)]
    ELSE [chunk |-> SubSeq(wire, 1, k), rest |-> SubSeq(wire, k + 1, Len(wire))]

protocolVars ==
    << sock, connected, command_id, lock, thr, conns, nconn, running, listening,
       gimp, host, calls, faults, sent, produced, last >>

\* The client decodes a frame the server wrote.
ClientRecv ==
    /\ codec.dir = "s2c"
    /\ codec.phase \in {"header", "body"}
    /\ codec.quiet < TimeoutTicks
    /\ \E k \in Chunks(ClientRecvSize(codec.n - ByteLen(codec.buf))) :
         codec' = AfterChunk(codec, TakeChunk(codec.wire, k).chunk,
                             TakeChunk(codec.wire, k).rest)
    /\ UNCHANGED protocolVars

\* The server decodes a frame the client wrote.
ServerRecv ==
    /\ codec.dir = "c2s"
    /\ codec.phase \in {"header", "body"}
    /\ \E k \in Chunks(ServerRecvSize(codec.n - ByteLen(codec.buf))) :
         codec' = AfterChunk(codec, TakeChunk(codec.wire, k).chunk,
                             TakeChunk(codec.wire, k).rest)
    /\ UNCHANGED protocolVars

NextCodec ==
    \/ ClientRecv
    \/ ServerRecv

SpecCodec == InitCodec /\ [][NextCodec]_vars

\* ------------------------------------------------------------------------
\* The decoders on any stream: any header, a sender that closes, time
\* ------------------------------------------------------------------------

\* Lengths above the maximum that a header may declare.
OversizeLengths == { MAX_MESSAGE_SIZE + 1, 2147483647 }

\* The bytes behind a header the decoder may turn away.
StreamTails == { <<>>, << RunByte, RunByte, RunByte, RunByte, RunByte >> }

\* Where the sender closes: before the frame, inside the header, after the
\* header, inside the body.
EofCuts == {0, 2, 4, 6}

\* A stream that opens with a header declaring length, then body, then tail.
RawStart(dir, length, body, tail) ==
    [NoTransfer EXCEPT
       !.dir = dir, !.wire = Pack(length) \o body \o tail, !.trail = Len(tail),
       !.n = HEADER_SIZE, !.phase = "header", !.decl = length]

\* The first k bytes of the frame of m, and then the sender closes.
CutStart(m, dir, k) ==
    [CodecStart(m, dir, <<>>) EXCEPT
       !.wire = SubSeq(@, 1, k), !.eof = TRUE]

\* A whole frame; a header above the maximum; a frame of exactly the
\* maximum (its body one run); a frame the sender closes in.
StreamStarts ==
    { CodecStart(m, dir, trailer) :
        m \in CodecMessages, dir \in {"c2s", "s2c"}, trailer \in Trailers }
    \cup { RawStart(dir, length, <<>>, tail) :
             dir \in {"c2s", "s2c"}, length \in OversizeLengths, tail \in StreamTails }
    \cup { RawStart(dir, MAX_MESSAGE_SIZE, <<0 - MAX_MESSAGE_SIZE>>, tail) :
             dir \in {"c2s", "s2c"}, tail \in StreamTails }
    \cup { CutStart(m, dir, k) :
             m \in CodecMessages, dir \in {"c2s", "s2c"}, k \in EofCuts }

InitStream ==
    /\ Constructed
    /\ codec \in StreamStarts

\* GimpBridge._recv_exact: recv returned b"", GimpConnectionError is raised
\* with the text "got {len(data)} of {n} bytes".
ClientEofResult(data, n) ==
    [kind |-> "GimpConnectionError", got |-> ByteLen(data), of |-> n]

\* MCPProPlugin._recv_exact returns None, and _receive_message returns None
\* in its turn, whatever had been read.
ServerEofResult(data, n) ==
    [kind |-> "None", got |-> 0, of |-> 0]

\* The client's recv meets the end of the stream.
ClientRecvEof ==
    /\ codec.dir = "s2c"
    /\ codec.phase \in {"header", "body"}
    /\ codec.wire = <<>>
    /\ codec.eof
    /\ codec' = [codec EXCEPT !.phase = "eof", !.res = ClientEofResult(codec.buf, codec.n)]
    /\ UNCHANGED protocolVars

\* The server's recv meets the end of the stream.
ServerRecvEof ==
    /\ codec.dir = "c2s"
    /\ codec.phase \in {"header", "body"}
    /\ codec.wire = <<>>
    /\ codec.eof
    /\ codec' = [codec EXCEPT !.phase = "eof", !.res = ServerEofResult(codec.buf, codec.n)]
    /\ UNCHANGED protocolVars

\* The clock ticks while the client waits in recv with nothing to read.
\* (The server's socket has no timeout: client.settimeout(None).)
TimePasses ==
    /\ codec.dir = "s2c"
    /\ codec.phase \in {"header", "body"}
    /\ codec.quiet < TimeoutTicks
    /\ codec.elapsed < MaxElapsed
    /\ codec' = [codec EXCEPT !.quiet = @ + 1, !.elapsed = @ + 1]
    /\ UNCHANGED protocolVars

\* recv raises socket.timeout: nothing came for the whole timeout that
\* settimeout put on the socket.
ClientRecvTimeout ==
    /\ codec.dir = "s2c"
    /\ codec.phase \in {"header", "body"}
    /\ codec.quiet = TimeoutTicks
    /\ codec' = [codec EXCEPT !.phase = "timeout",
                              !.res = [kind |-> "socket.timeout", got |-> 0, of |-> 0]]
    /\ UNCHANGED protocolVars

NextStream ==
    \/ ClientRecv
    \/ ServerRecv
    \/ ClientRecvEof
    \/ ServerRecvEof
    \/ TimePasses
    \/ ClientRecvTimeout

SpecStream == InitStream /\ [][NextStream]_vars

\* ------------------------------------------------------------------------
\* The legacy mode: JSON texts without a length prefix
\* ------------------------------------------------------------------------

\* sock.recv(8192) in both legacy decoders.
LEGACY_RECV == 8192

\* Where the sender of a text of total bytes may close: before it, inside
\* it, one byte short of it, behind it.
LegacyCuts(total) == {0, 1, total - 1, total}

\* The sender writes json.dumps(m).encode("utf-8") and nothing before it
\* (_send and _send_message without the length prefix), or only its first
\* cut bytes and then closes.
LegacyStart(m, dir, cut, closes) ==
    LET data == Utf8Encode(JsonDumps(m))
    IN  [NoTransfer EXCEPT
           !.msg = m, !.dir = dir, !.wire = SubSeq(data, 1, cut), !.phase = "legacy",
           !.decl = Len(data), !.eof = closes \/ cut < Len(data)]

InitLegacy ==
    /\ Constructed
    /\ codec \in UNION { { LegacyStart(m, dir, cut, closes) :
                             dir \in {"c2s", "s2c"},
                             cut \in LegacyCuts(Len(Utf8Encode(JsonDumps(m)))),
                             closes \in BOOLEAN } : m \in CodecMessages }

\* A decoder that takes whatever has arrived for a message.
AnyBytesDecode(buffer) == [ok |-> TRUE, v |-> JObj(<<>>)]

\* json.loads(buffer.decode("utf-8")) in the try of both loops.
LegacyTry(buffer) == DecodeBody(buffer)

\* One turn of the loop with a chunk that is not empty: buffer += chunk and
\* the attempt to decode all of it.
AfterLegacyChunk(c, chunk, rest) ==
    LET data == c.buf \o chunk
        more == [c EXCEPT !.wire = rest, !.buf = data, !.bc = Counted(@)]
    IN  IF LegacyTry(data).ok
        THEN [more EXCEPT !.phase = "done", !.out = LegacyTry(data)]
        ELSE more

\* GimpBridge._receive_json_boundary: recv(8192) returned a chunk.
LegacyClientRecv ==
    /\ codec.dir = "s2c"
    /\ codec.phase = "legacy"
    /\ \E k \in 1..Len(codec.wire) :
         /\ k <= LEGACY_RECV
         /\ codec' = AfterLegacyChunk(codec, SubSeq(codec.wire, 1, k),
                                      SubSeq(codec.wire, k + 1, Len(codec.wire)))
    /\ UNCHANGED protocolVars

\* MCPProPlugin._receive_message without USE_LENGTH_PREFIX: recv(8192)
\* returned a chunk.
LegacyServerRecv ==
    /\ codec.dir = "c2s"
    /\ codec.phase = "legacy"
    /\ \E k \in 1..Len(codec.wire) :
         /\ k <= LEGACY_RECV
         /\ codec' = AfterLegacyChunk(codec, SubSeq(codec.wire, 1, k),
                                      SubSeq(codec.wire, k + 1, Len(codec.wire)))
    /\ UNCHANGED protocolVars

\* GimpBridge._receive_json_boundary: recv returned b"".  What is in the
\* buffer is tried once more, then GimpConnectionError("Connection closed
\* by GIMP plugin") is raised.
LegacyClientEof ==
    /\ codec.dir = "s2c"
    /\ codec.phase = "legacy"
    /\ codec.wire = <<>>
    /\ codec.eof
    /\ codec' = IF codec.buf # <<>> /\ LegacyTry(codec.buf).ok
                THEN [codec EXCEPT !.phase = "done", !.out = LegacyTry(codec.buf)]
                ELSE [codec EXCEPT !.phase = "eof",
                                   !.res = [kind |-> "GimpConnectionError", got |-> 0, of |-> 0]]
    /\ UNCHANGED protocolVars

\* MCPProPlugin._receive_message: if not chunk: return None.
LegacyServerEof ==
    /\ codec.dir = "c2s"
    /\ codec.phase = "legacy"
    /\ codec.wire = <<>>
    /\ codec.eof
    /\ codec' = [codec EXCEPT !.phase = "eof", !.res = [kind |-> "None", got |-> 0, of |-> 0]]
    /\ UNCHANGED protocolVars

NextLegacy ==
    \/ LegacyClientRecv
    \/ LegacyServerRecv
    \/ LegacyClientEof
    \/ LegacyServerEof

SpecLegacy == InitLegacy /\ [][NextLegacy]_vars

\* ------------------------------------------------------------------------
\* Properties
\* ------------------------------------------------------------------------

\* The thread is inside the with block of send_command.
InWith(t) == thr[t].pc \in {"connect", "send", "send_rest", "recv_header", "recv_body"}

\* The thread is between starting to send and finishing to read.
OnWire(t) == thr[t].pc \in {"send", "send_rest", "recv_header", "recv_body"}

\* The errors of send_command that are not command errors and arise once
\* the request is on its way.
ConnectionFailures == {"timeout", "io_error", "closed", "oversize", "decode_error"}

\* The writes of one request are next to each other.
Contiguous(wr) ==
    \A i \in 1..Len(wr), j \in 1..Len(wr), k \in 1..Len(wr) :
        (i < j /\ j < k /\ wr[i] = wr[k]) => wr[j] = wr[i]

\* C1: whenever send_command raises a timeout, an I/O error, a peer close
\* in mid frame, an oversize length or an undecodable body, the bridge is
\* disconnected (connected false, no socket) as the error reaches the caller.
C1_DisconnectedWhenRaised ==
    last.kind \in ConnectionFailures => (~last.connected /\ last.sock = NoSock)

\* C2: a value send_command returns is the response the server produced for
\* the request of that same call, made of that response's bytes only, and no
\* request is sent on a connection that still holds unread bytes of an
\* earlier response.
C2_OwnResponse ==
    /\ last.kind = "ok" => (last.value = produced[last.id] /\ last.owners = {last.id})
    /\ \A t \in Threads : thr[t].pc = "send" => conns[sock].s2c = <<>>

C4_TimeoutReconnects ==
    /\ last.kind = "timeout" => (~last.connected /\ last.sock = NoSock)
    /\ \A t \in Threads :
         (thr[t].pk = "timeout" /\ OnWire(t)) => thr[t].used # thr[t].ps
    /\ last.pk = "timeout" => last.used # last.ps
    /\ (last.pk = "timeout" /\ last.healthy) =>
         last.kind \notin {"closed", "io_error", "connect_error", "decode_error"}
    /\ (last.pk = "timeout" /\ last.kind = "ok") =>
         (last.value = produced[last.id] /\ last.owners = {last.id})

\* The call after a timed-out one returned, over a new connection.
C4_Witness ==
    /\ last.pk = "timeout"
    /\ last.kind = "ok"
    /\ last.used # last.ps
    /\ last.value = produced[last.id]

\* C5: after a call that failed because the connection was lost, the next
\* call, with the host healthy, goes out on a new connection and meets no
\* connection failure.
C5_ReconnectsAfterLoss ==
    (last.pk \in {"closed", "io_error"} /\ last.healthy) =>
        /\ last.used # last.ps
        /\ last.kind \notin {"closed", "io_error", "connect_error"}

\* C6: the k-th request handed to _send carries id k; every id issued is
\* handed to _send, so a call that fails to connect has consumed none; the
\* counter is never set back.
C6_Ids ==
    /\ \A k \in 1..Len(sent) : sent[k] = k
    /\ command_id = Len(sent) + Cardinality({t \in Threads : thr[t].pc = "send"})
    /\ \A t \in Threads : thr[t].pc = "connect" => thr[t].id = 0
    /\ last.kind = "connect_error" => last.id = 0

\* The second request went out with id 2 on a second connection.
C6_Witness ==
    /\ sent = <<1, 2>>
    /\ nconn = 2
    /\ last.id = 2

\* C7: the lock is held only by a thread inside the with block: once a call
\* has returned or raised, whatever the way, its thread holds it no more.
C7_LockReleased ==
    /\ \A t \in Threads : lock = t => InWith(t)
    /\ (\A t \in Threads : ~InWith(t)) => lock = NoThread

\* After a call that ended in an exception no except clause catches, the
\* next call holds the lock.
C7_Witness ==
    /\ last.kind \in {"closed", "oversize", "decode_error"}
    /\ \E t \in Threads : lock = t /\ thr[t].n = last.n + 1

\* C8: a response with status "error" raises a command error with the
\* response's error message and traceback; the bridge keeps its socket and
\* stays connected, and the next call goes out on the same connection.
C8_CommandErrorKeepsConnection ==
    /\ last.kind = "command_error" =>
         /\ last.connected
         /\ last.sock = last.used
         /\ last.error = DictGet(produced[last.id], K_error, JStr(M_unknown_gimp_error))
         /\ last.traceback = DictGet(produced[last.id], K_traceback, JNull)
    /\ \A t \in Threads :
         (thr[t].pk = "command_error" /\ OnWire(t)) => thr[t].used = thr[t].ps
    /\ last.pk = "command_error" => last.used = last.ps

\* A call returned over the connection the command error before it came on.
C8_Witness ==
    /\ last.pk = "command_error"
    /\ last.kind = "ok"
    /\ last.used = last.ps
    /\ nconn = 1

\* C9: a frame written by _send or by _send_message for a JSON object is
\* never rejected by the other side's decoder, and is decoded to that object.
C9_RoundTrip ==
    /\ codec.phase \notin {"rejected", "failed"}
    /\ codec.phase = "done" => codec.out = [ok |-> TRUE, v |-> codec.msg]

\* The server has decoded a request of the client.
C9_Witness ==
    /\ codec.phase = "done"
    /\ codec.dir = "c2s"
    /\ codec.msg = Payload(1, T_exec, JObj(<<>>))
    /\ codec.out.v = codec.msg

\* The decoding of a frame received in one piece per _recv_exact.
WholeDecode(frame) ==
    DecodeBody(SubSeq(frame, HEADER_SIZE + 1,
                      HEADER_SIZE + Unpack(SubSeq(frame, 1, HEADER_SIZE))))

\* C10: however the frame is cut into chunks, the decoder returns what it
\* returns for the frame in one piece, and it takes the bytes of the frame
\* and no byte of what follows.
C10_ChunkingIndependent ==
    /\ Len(codec.wire) >= codec.trail
    /\ codec.phase # "failed"
    /\ codec.phase = "done" =>
         /\ Len(codec.wire) = codec.trail
         /\ codec.out = WholeDecode(IF codec.dir = "c2s" THEN ClientFrame(codec.msg)
                                    ELSE ServerFrame(codec.msg))

\* The client has decoded a frame that came cut inside the header and
\* inside the body, with another frame behind it.
C10_Witness ==
    /\ codec.phase = "done"
    /\ codec.dir = "s2c"
    /\ codec.hc = MaxChunksCounted
    /\ codec.bc = MaxChunksCounted
    /\ codec.trail > 0

\* C11: a header that declares more than MAX_MESSAGE_SIZE makes the decoder
\* fail, on the client and on the server, before any recv for the body: no
\* body chunk was received and every byte behind the header is still in the
\* stream.  Nothing else is turned away: a declared length equal to the
\* maximum goes on to the body.
C11_OversizeRejectedBeforeBody ==
    /\ codec.phase = "rejected" =>
         /\ codec.decl > MAX_MESSAGE_SIZE
         /\ codec.bc = 0
         /\ ByteLen(codec.wire) = codec.trail
    /\ codec.decl > MAX_MESSAGE_SIZE => codec.phase \notin {"body", "done"}
    /\ codec.decl <= MAX_MESSAGE_SIZE => codec.phase # "rejected"
    /\ (codec.decl = MAX_MESSAGE_SIZE /\ codec.phase = "done") =>
         /\ codec.n = MAX_MESSAGE_SIZE
         /\ ByteLen(codec.wire) = codec.trail

\* The server has turned away a header above the maximum with bytes behind
\* it in the stream.
C11_Witness ==
    /\ codec.phase = "rejected"
    /\ codec.dir = "c2s"
    /\ codec.decl = MAX_MESSAGE_SIZE + 1
    /\ codec.trail > 0

\* C12: when the first k attempts of connect() fail and the next succeeds,
\* connect() returns with the bridge connected, having slept the first k
\* entries of RECONNECT_DELAYS in order: one sleep after each failure, none
\* after the success (k is 0 when the bridge was connected already).
C12_BackoffWaits ==
    \A t \in Threads :
        /\ thr[t].pc = "connect" =>
              /\ thr[t].attempts <= Len(RECONNECT_DELAYS)
              /\ thr[t].waits = SubSeq(RECONNECT_DELAYS, 1, thr[t].attempts)
        /\ thr[t].pc = "send" =>
              /\ Connected
              /\ thr[t].waits = SubSeq(RECONNECT_DELAYS, 1, thr[t].attempts)

\* Two attempts were refused and the third connected.
C12_Witness ==
    \E t \in Threads :
        /\ thr[t].pc = "send"
        /\ thr[t].attempts = 2
        /\ thr[t].waits = <<5, 10>>
        /\ Connected

\* C13: connect() gives up only after the loop's five attempts and the final
\* one have all failed, six in all; the error then leaves the bridge
\* not connected and without a socket.
C13_SixAttemptsThenError ==
    /\ \A t \in Threads : thr[t].pc = "connect" => thr[t].attempts <= 5
    /\ last.kind = "connect_error" =>
         /\ last.attempts = 6
         /\ ~last.connected
         /\ last.sock = NoSock
         /\ ~Connected \/ lock # NoThread

\* A call ended in the connection error, the bridge as the error left it.
C13_Witness ==
    /\ last.kind = "connect_error"
    /\ last.attempts = 6
    /\ sock = NoSock
    /\ ~connected
    /\ lock = NoThread

\* C14: from every state of the bridge, disconnect() ends (whether or not
\* close raised) with connected false and no socket held, and a second
\* disconnect() right after it changes nothing.
C14_DisconnectIdempotent ==
    \A raises \in BOOLEAN, again \in BOOLEAN :
        LET once == Disconnected(BridgeNow, raises)
        IN  /\ ~once.connected
            /\ once.sock = NoSock
            /\ Disconnected(once, again) = once

\* disconnect() was called on a connected bridge: the call before it had
\* returned and left the bridge connected, and no call has been made since.
C14_Witness ==
    /\ last.kind = "ok"
    /\ last.connected
    /\ lock = NoThread
    /\ sock = NoSock
    /\ ~connected
    /\ ~conns[last.used].copen

\* The whole frames at the head of a stream, each decoded, and what is left.
RECURSIVE SplitFrames(_, _)
SplitFrames(s, acc) ==
    IF Len(s) < HEADER_SIZE \/ Len(s) < HEADER_SIZE + Unpack(SubSeq(s, 1, HEADER_SIZE))
    THEN [frames |-> acc, rest |-> s]
    ELSE LET n == Unpack(SubSeq(s, 1, HEADER_SIZE))
         IN  SplitFrames(SubSeq(s, HEADER_SIZE + n + 1, Len(s)),
                         Append(acc, DecodeBody(SubSeq(s, HEADER_SIZE + 1, HEADER_SIZE + n))))

\* The responses written on connection c so far.
Responses(c) == SplitFrames(conns[c].s2c, <<>>)

\* The transport of connection c is intact and the server is up: the client
\* has not closed, nothing was shut down, no write was cut, and the client
\* wrote frames of these kinds only.
Intact(c, tags) ==
    /\ running
    /\ faults = 0
    /\ conns[c].copen
    /\ conns[c].raw # <<>>
    /\ \A i \in 1..Len(conns[c].raw) : conns[c].raw[i] \in tags

\* Every request of connection c has been taken and answered.
Settled(c) == conns[c].srv = "header" /\ conns[c].c2s = <<>>

\* The response to the request "eval 1".
EvalAnswer == [ok |-> TRUE, v |-> SuccessDict(JArr(<<JStr(<<"1">>)>>))]

\* C15: a request of a type that is not registered gets one response, status
\* "error" with the text "Unknown command type: <type>"; the handler stays
\* in its loop with the connection open, and a request that follows on the
\* connection gets its normal answer.
C15_UnknownCommandAnswered ==
    \A c \in Conns :
        Intact(c, {"eval", "unknown"}) =>
            LET r == Responses(c)
            IN  /\ conns[c].srv # "closed"
                /\ Len(r.frames) <= Len(conns[c].raw)
                /\ Settled(c) => (Len(r.frames) = Len(conns[c].raw) /\ r.rest = <<>>)
                /\ \A i \in 1..Len(r.frames) :
                     /\ conns[c].raw[i] = "unknown" =>
                          r.frames[i] = [ok |-> TRUE, v |-> ErrorDict(M_unknown_command \o T_nope)]
                     /\ conns[c].raw[i] = "eval" => r.frames[i] = EvalAnswer

\* A request of an unknown type, then an eval request, both answered.
C15_Witness ==
    \E c \in Conns :
        /\ Intact(c, {"eval", "unknown"})
        /\ Settled(c)
        /\ conns[c].raw = <<"unknown", "eval">>
        /\ Len(Responses(c).frames) = 2
        /\ Responses(c).frames[2] = EvalAnswer

\* C16: a request whose handler raises gets one response, status "error"
\* with the exception's message and a traceback string; the connection stays
\* open, and a request that follows on it gets its normal answer.
C16_HandlerErrorAnswered ==
    \A c \in Conns :
        Intact(c, {"eval", "raise"}) =>
            LET r == Responses(c)
            IN  /\ conns[c].srv # "closed"
                /\ Len(r.frames) <= Len(conns[c].raw)
                /\ Settled(c) => (Len(r.frames) = Len(conns[c].raw) /\ r.rest = <<>>)
                /\ \A i \in 1..Len(r.frames) :
                     /\ conns[c].raw[i] = "raise" =>
                          /\ r.frames[i].ok
                          /\ DictGet(r.frames[i].v, K_status, JNone) = JStr(V_error)
                          /\ DictGet(r.frames[i].v, K_error, JNone) = JStr(M_python_error)
                          /\ DictGet(r.frames[i].v, K_traceback, JNone).t = "str"
                          /\ DictGet(r.frames[i].v, K_traceback, JNone).s # <<>>
                     /\ conns[c].raw[i] = "eval" => r.frames[i] = EvalAnswer

\* A request whose handler raised, then an eval request, both answered.
C16_Witness ==
    \E c \in Conns :
        /\ Intact(c, {"eval", "raise"})
        /\ Settled(c)
        /\ conns[c].raw = <<"raise", "eval">>
        /\ Len(Responses(c).frames) = 2
        /\ Responses(c).frames[2] = EvalAnswer

\* _receive_message is about to fail on connection c: the header at the
\* head of the stream is above the maximum, or the body is there in full
\* and is no UTF-8 JSON.
DecodeFails(c) ==
    \/ /\ conns[c].srv = "header"
       /\ Len(conns[c].c2s) >= HEADER_SIZE
       /\ TooLarge(Unpack(SubSeq(conns[c].c2s, 1, HEADER_SIZE)))
    \/ /\ conns[c].srv = "body"
       /\ Len(conns[c].c2s) >= conns[c].len
       /\ ~DecodeBody(SubSeq(conns[c].c2s, 1, conns[c].len)).ok

\* C17: when _receive_message fails on a request with the transport intact,
\* the step of the handler that meets the failure writes one response, an
\* error response, and leaves the handler at the top of its loop with the
\* connection open.
C17_DecodeErrorKeepsSession ==
    [][\A c \in Conns :
         ( /\ DecodeFails(c)
           /\ running
           /\ conns[c].copen
           /\ Len(conns'[c].c2s) < Len(conns[c].c2s) ) =>
             LET r == SplitFrames(SubSeq(conns'[c].s2c, Len(conns[c].s2c) + 1,
                                         Len(conns'[c].s2c)), <<>>)
             IN  /\ SubSeq(conns'[c].s2c, 1, Len(conns[c].s2c)) = conns[c].s2c
                 /\ Len(r.frames) = 1
                 /\ r.rest = <<>>
                 /\ r.frames[1].ok
                 /\ DictGet(r.frames[1].v, K_status, JNone) = JStr(V_error)
                 /\ conns'[c].srv = "header"
                 /\ conns'[c].copen]_vars

\* A header above the maximum, then an eval request: an error response and
\* the answer, on a connection that is still served.
C17_Witness ==
    \E c \in Conns :
        /\ Intact(c, {"eval", "oversize"})
        /\ Settled(c)
        /\ conns[c].raw = <<"oversize", "eval">>
        /\ Len(Responses(c).frames) = 2
        /\ DictGet(Responses(c).frames[1].v, K_status, JNone) = JStr(V_error)
        /\ Responses(c).frames[2] = EvalAnswer

\* The timeout a call is to run under: the argument when one is passed, the
\* bridge's default when none is.
TimeoutAskedFor(timeout) == IF timeout = NoTimeoutArg THEN DEFAULT_TIMEOUT ELSE timeout

\* C18: while a call is on the wire its socket's timeout is the timeout
\* argument when one was passed (0 included) and the default when none was;
\* a timeout error carries that same bound.
C18_EffectiveTimeout ==
    /\ \A t \in Threads :
         OnWire(t) => conns[thr[t].used].tmo = TimeoutAskedFor(thr[t].timeout)
    /\ last.kind = "timeout" => last.bound = TimeoutAskedFor(last.timeout)

\* C19: the client never goes on reading a response, nor returns it, once
\* more than the effective timeout has passed since the request went out:
\* by then the call has ended in the timeout error, however the bytes of the
\* response were spread over time.
C19_TimeoutBoundsWholeResponse ==
    (codec.dir = "s2c" /\ codec.phase \in {"header", "body", "done"}) =>
        codec.elapsed <= TimeoutTicks

\* What a decoder reports when the peer closes before any byte of a frame.
CleanEof(dir) ==
    IF dir = "s2c" THEN ClientEofResult(<<>>, HEADER_SIZE) ELSE ServerEofResult(<<>>, HEADER_SIZE)

\* C20: when the peer closes after part of the header or part of the body
\* has been read, what the decoder reports, on the client and on the server,
\* differs from what it reports when the peer closes before any byte.
C20_EofKindsDistinct ==
    (codec.phase = "eof" /\ codec.buf # <<>>) => codec.res # CleanEof(codec.dir)

\* ------------------------------------------------------------------------
\* The server's connection handler
\* ------------------------------------------------------------------------

C22_ClosedOnlyOnTransportEnd ==
    \A c \in Conns :
        (conns[c].closes > 0 /\ conns[c].copen) => conns[c].why = "io"

\* C23: the handler closes the client socket once on every way out of its
\* loop and does nothing on the connection afterwards; the end of the
\* stream while it waits for a request is left without a response.
C23_ClosedOnceThenSilent ==
    [][\A c \in Conns :
         /\ conns'[c].closes <= 1
         /\ (conns[c].srv \in {"header", "body", "dispatch", "sending"}
               /\ conns'[c].srv = "closed") => conns'[c].closes = 1
         /\ (conns[c].srv = "closed" /\ conns[c].closes = 1) =>
               /\ conns'[c].srv = "closed"
               /\ conns'[c].closes = 1
               /\ conns'[c].reads = conns[c].reads
               /\ Len(conns'[c].s2c) <= Len(conns[c].s2c)
               /\ Len(conns'[c].c2s) >= Len(conns[c].c2s)
         /\ (conns[c].srv \in {"header", "body"} /\ conns'[c].srv = "closed"
               /\ conns'[c].why = "eof") => conns'[c].s2c = conns[c].s2c]_vars

C23_Witness ==
    \E c \in Conns :
        /\ conns[c].srv = "closed"
        /\ conns[c].closes = 1
        /\ conns[c].why = "eof"
        /\ conns[c].reads = 1
        /\ Len(Responses(c).frames) = 1

\* C26: every request the loop hands to _dispatch gets a response from it;
\* _dispatch raises on none.
C26_DispatchAlwaysReturns ==
    \A c \in Conns :
        conns[c].srv = "dispatch" => ~Dispatch(conns[c].request, gimp).raised

\* The bytes of the frames the client wrote from the k-th on.
RECURSIVE FramesFrom(_, _)
FramesFrom(raw, k) ==
    IF k > Len(raw) THEN <<>> ELSE RawBytes(raw[k]) \o FramesFrom(raw, k + 1)

\* The requests a client encodes.
Encoded ==
    { Payload(7, T_exec, EvalParams(<<"1">>)), Payload(8, T_exec, EvalParams(<<"x">>)),
      Payload(9, T_nope, JNone) }

\* C28: when the handler starts to wait for a request the bytes it has not
\* read begin at a frame the client wrote, and a request it hands to
\* _dispatch is a message the client encoded, also after rejected frames.
C28_FrameBoundaryKept ==
    \A c \in Conns :
        LET cn == conns[c]
        IN  (\A i \in 1..Len(cn.raw) : cn.raw[i] \in {"eval", "raise", "unknown",
                                                      "oversize_body", "garbage", "badutf8"}) =>
                /\ cn.srv = "header" =>
                     \E k \in 1..(Len(cn.raw) + 1) : cn.c2s = FramesFrom(cn.raw, k)
                /\ cn.srv = "dispatch" => cn.request \in Encoded

\* C24: once _shutdown has run the listening socket is closed, accept
\* returns no further connection, and the accept loop is left in the end,
\* with or without a client ever connecting.
C24_ShutdownStopsListener ==
    /\ [](~running => ~listening)
    /\ [][\A c \in Conns :
            (conns[c].srv = "queued" /\ conns'[c].srv = "header") =>
                (running /\ listening)]_vars
    /\ ((~running /\ host.loop = "accept") ~> (host.loop = "off"))

C24_Witness ==
    /\ ~running
    /\ ~listening
    /\ host.loop = "off"
    /\ faults > 0
    /\ nconn = 0

\* The handler of connection c is blocked in recv with nothing to read, or
\* is inside a command.
Busy(c) ==
    \/ conns[c].srv = "header" /\ conns[c].c2s = <<>>
    \/ conns[c].srv \in {"exec_saved", "exec_swapped", "exec_ran", "exec_restored"}

\* C25: while one connection's handler is blocked or inside a command, the
\* accept loop can take a connection from its queue and another connection's
\* handler can take each of its steps: read a header that has arrived, begin
\* the command, swap sys.stdout, run, restore, write the response.
C25_HandlersIndependent ==
    \A c \in Conns : \A d \in Conns \ {c} :
        (Busy(c) /\ running /\ listening) =>
            /\ conns[d].srv = "queued" => ENABLED Accept(d)
            /\ (conns[d].srv = "header" /\ Len(conns[d].c2s) >= HEADER_SIZE) =>
                   ENABLED SrvRecvHeader(d)
            /\ conns[d].srv = "dispatch" => ENABLED ExecSave(d)
            /\ conns[d].srv = "exec_saved" => ENABLED ExecSwap(d)
            /\ conns[d].srv = "exec_swapped" => ENABLED ExecRun(d)
            /\ conns[d].srv = "exec_ran" => ENABLED ExecRestore(d)
            /\ conns[d].srv = "exec_restored" => ENABLED ExecReply(d)

\* One handler is inside its command; the other connection's command began
\* after that (it saved the first one's buffer as old_stdout), and its
\* request has been read, run and answered.
C25_Witness ==
    \E c \in Conns : \E d \in Conns \ {c} :
        /\ conns[c].srv = "exec_swapped"
        /\ conns[d].copen
        /\ conns[d].srv = "header"
        /\ conns[d].old = c
        /\ conns[d].reads = 1
        /\ Len(Responses(d).frames) = 1

\* C30: the response to each connection's command carries what that command
\* printed and nothing else, and with no command running sys.stdout is the
\* stream it was at the start.
C30_CapturesOwnOutput ==
    /\ \A c \in Conns :
         Len(Responses(c).frames) > 0 =>
             Responses(c).frames[1] =
                 [ok |-> TRUE, v |-> SuccessDict(JArr(<< JStr(DigitsOf(c)) >>))]
    /\ (\A c \in Conns : conns[c].srv \notin
            {"exec_saved", "exec_swapped", "exec_ran", "exec_restored"}) =>
           host.stdout = 0

\* C27: in legacy mode a decoder returns a value only when all bytes of the
\* JSON object have arrived, and then that object; from a proper prefix it
\* returns nothing.  When the sender closes before the object is complete
\* the client raises GimpConnectionError and the server returns None, its
\* end of stream.
C27_LegacyDecodesWhole ==
    /\ codec.phase = "done" =>
         /\ codec.out = [ok |-> TRUE, v |-> codec.msg]
         /\ Len(codec.buf) = codec.decl
         /\ codec.wire = <<>>
    /\ ~(codec.phase = "legacy" /\ Len(codec.buf) = codec.decl)
    /\ codec.phase = "eof" =>
         /\ Len(codec.buf) < codec.decl
         /\ codec.res.kind = IF codec.dir = "s2c" THEN "GimpConnectionError" ELSE "None"

C27_Witness ==
    /\ codec.phase = "done"
    /\ codec.bc = MaxChunksCounted
    /\ codec.msg = SuccessDict(JArr(<<JStr(<<"1">>)>>))
    /\ codec.out.v = codec.msg

\* C29: while a send_command is between writing its request and reading
\* its response, the bridge's socket is the one the command began on, it is
\* open and the bridge is marked connected.
C29_SocketHeldDuringCommand ==
    \A t \in Threads :
        thr[t].pc \in {"send", "send_rest", "recv_header", "recv_body"} =>
            /\ sock = thr[t].used
            /\ connected
            /\ conns[thr[t].used].copen

====
